---- MODULE Spec2Model ----
(***************************************************************************)
(* Verification model of the multi-agent SRE assistant:                    *)
(*   - the policy engine (sre_agent/policy_engine.py),                     *)
(*   - the job dispatcher (backend/crud.py, sre_agent/api/v1/jobs.py),     *)
(*   - the investigation engine (sre_agent/graph_builder.py), its          *)
(*     background drivers and the approval endpoint                        *)
(*     (sre_agent/agent_runtime.py) and the session state store            *)
(*     (sre_agent/redis_state_store.py),                                   *)
(*   - the tool wrappers: retry, circuit breaker and audit                 *)
(*     (sre_agent/mcp_tool_wrapper.py).                                    *)
(* Several specifications share the variables; each leaves the variables   *)
(* of the other components unchanged.                                      *)
(***************************************************************************)
EXTENDS Integers, Sequences, FiniteSets, TLC

VARIABLES
  pe,          \* policy engine: the last evaluate_action / policy gate call and its result
  jobs,        \* dispatcher: the jobs table, a sequence of rows indexed by job id
  inflight,    \* dispatcher: accepted worker requests between their read and their commit
  clock,       \* dispatcher: datetime.utcnow(), a logical clock
  resp,        \* dispatcher: the last worker request answered and its HTTP status
  runs,        \* engine: the engine runs of the session (background task, approval runs)
  snapshot,    \* state store: the session snapshot sre_agent:approval:{session}
  slog,        \* state store: the session log list sre_agent:logs:{session}
  locks,       \* state store: the set of clusters whose CLUSTER_LOCK key exists
  audit,       \* database: the AuditEvent rows
  incident,    \* database: the status of the incident of the session
  summary,     \* database: the summary of the incident of the session
  approvals,   \* the calls of POST /approve/{session_id}, in order, with their answers
  lockOps,     \* number of POST /clusters/{id}/lock calls made
  tw,          \* tool wrapper: circuit breaker state, the AgentAuditLog rows, the
               \* time and the last wrapped tool call with its result
  up,          \* state store: whether Redis is reachable (is_available)
  ls,          \* state store: a log list sre_agent:logs:{session} at the level of
               \* the Redis commands, with the append_log calls under way
  wk,          \* edge worker: the position of polling_loop / execute_job, the job
               \* under execution and the statuses posted for it
  sw           \* one run at its investigation_swarm node: the agent tasks handed to
               \* asyncio.gather and the fields of the state the node writes

vars == <<pe, jobs, inflight, clock, resp, runs, snapshot, slog, locks, audit,
          incident, summary, approvals, lockOps, tw, up, ls, wk, sw>>

\* Python's None: for a record-valued field, and for a string or a dict entry
NoneRec == [isNone |-> TRUE]

Absent == <<>>

Some(v) == <<v>>

----------------------------------------------------------------------------
(* Python strings that the code lowercases or searches are sequences of     *)
(* one-character strings, so that str.lower() and `in` are computed.        *)

UpperAlphabet == <<"A","B","C","D","E","F","G","H","I","J","K","L","M",
                   "N","O","P","Q","R","S","T","U","V","W","X","Y","Z">>

LowerAlphabet == <<"a","b","c","d","e","f","g","h","i","j","k","l","m",
                   "n","o","p","q","r","s","t","u","v","w","x","y","z">>

LowerChar(c) ==
  IF \E i \in DOMAIN UpperAlphabet : UpperAlphabet[i] = c
  THEN LowerAlphabet[CHOOSE i \in DOMAIN UpperAlphabet : UpperAlphabet[i] = c]
  ELSE c

\* str.lower()
StrLower(s) == [i \in 1..Len(s) |-> LowerChar(s[i])]

\* sub in s
StrContains(sub, s) ==
  \E i \in 0..(Len(s) - Len(sub)) : SubSeq(s, i + 1, i + Len(sub)) = sub

Str_restart  == <<"r","e","s","t","a","r","t">>
Str_delete   == <<"d","e","l","e","t","e">>
Str_patch    == <<"p","a","t","c","h">>
Str_scale    == <<"s","c","a","l","e">>
Str_rollback == <<"r","o","l","l","b","a","c","k">>
Str_escalate == <<"e","s","c","a","l","a","t","e">>
Str_delete_pod   == <<"d","e","l","e","t","e","_","p","o","d">>
Str_force_delete == <<"f","o","r","c","e","-","d","e","l","e","t","e">>
Str_Delete_cap   == <<"D","e","l","e","t","e">>
Str_Restart_cap  == <<"R","e","s","t","a","r","t">>
Str_production   == <<"p","r","o","d","u","c","t","i","o","n">>
Str_Production_cap == <<"P","r","o","d","u","c","t","i","o","n">>
Str_staging  == <<"s","t","a","g","i","n","g">>
Str_pod_x    == <<"p","o","d","-","x">>
Str_api      == <<"a","p","i">>
Str_manual_review == <<"m","a","n","u","a","l","_","r","e","v","i","e","w">>

----------------------------------------------------------------------------
(* Remediation actions and plans (RemediationAction, RemediationPlan).      *)
(* A parameter map is a record; a key the map does not hold is Absent, a    *)
(* key it holds is Some(value).                                             *)

NoParams == [replicas |-> Absent, replica_count |-> Absent, explicit_approval |-> Absent]

Act(t, target, params) == [action_type |-> t, target |-> target, parameters |-> params]

\* dict.get(key, default), on optional values
DictGet(d, key, default) == IF d[key] = Absent THEN default ELSE d[key]

\* risk scores are floats with one binary digit: they are kept doubled
RiskLevelMap(level) ==
  CASE level = "low" -> 4
    [] level = "medium" -> 10
    [] level = "high" -> 16
    [] OTHER -> 10

DangerousActions == {Str_restart, Str_rollback, Str_delete}

RECURSIVE CountDangerous(_)
CountDangerous(actions) ==
  IF actions = <<>> THEN 0
  ELSE (IF StrLower(Head(actions).action_type) \in DangerousActions THEN 1 ELSE 0)
       + CountDangerous(Tail(actions))

Min(a, b) == IF a < b THEN a ELSE b

\* calculate_risk_score, doubled (5.0 is 10, the cap 10.0 is 20)
calculate_risk_score(plan) ==
  IF plan = NoneRec THEN 10
  ELSE LET base == RiskLevelMap(plan.risk_level)
           n == Len(plan.actions)
           more3 == IF n > 3 THEN 2 ELSE 0
           more5 == IF n > 5 THEN 2 ELSE 0
       IN Min(base + more3 + more5 + CountDangerous(plan.actions), 20)

\* what json.dumps(value, default=str) followed by json.loads leaves of an object
\* that is not a JSON value (an AlertContext, a RemediationPlan): a string
Stringified == [str |-> TRUE]

\* get_environment_from_context: alert_context is None, a record of its labels, or
\* a string (no attribute `labels`, not a dict)
get_environment_from_context(alert_context) ==
  IF alert_context = NoneRec \/ alert_context = Stringified THEN Str_production
  ELSE LET labels == alert_context.labels
           \* a label that is missing or empty is falsy: `a or b or c or "production"`
           env == IF labels.environment # <<>> THEN labels.environment
                  ELSE IF labels.env # <<>> THEN labels.env
                  ELSE IF labels.namespace # <<>> THEN labels.namespace
                  ELSE Str_production
       IN StrLower(env)

\* Rule 2 of evaluate_action: the condition of the DELETE rule
Rule2(action_type, env_lower) ==
  /\ action_type \in {Str_delete, Str_patch}
  /\ StrContains(Str_delete, action_type)
  /\ env_lower = Str_production

\* an evaluate_action whose rule 1 blocks a restart only above the threshold
evaluate_action_mutant(action, environment, risk2) ==
  LET env_lower == StrLower(environment)
      action_type == StrLower(action.action_type)
      params == action.parameters
  IN IF action_type = Str_restart /\ env_lower = Str_production
       THEN ~(risk2 > 6)
     ELSE IF Rule2(action_type, env_lower)
       THEN FALSE
     ELSE IF /\ action_type = Str_scale
             /\ DictGet(params, "replicas", DictGet(params, "replica_count", Absent)) = Some(0)
             /\ env_lower = Str_production
       THEN FALSE
     ELSE IF /\ action_type = Str_rollback
             /\ env_lower = Str_production
             /\ DictGet(params, "explicit_approval", Some(FALSE)) # Some(TRUE)
       THEN FALSE
     ELSE TRUE

\* evaluate_action: TRUE when the action is allowed. risk2 is the doubled risk score.
evaluate_action(action, environment, risk2) ==
  LET env_lower == StrLower(environment)
      action_type == StrLower(action.action_type)
      params == action.parameters
  IN IF action_type = Str_restart /\ env_lower = Str_production
       THEN ~(risk2 >= 6)
     ELSE IF Rule2(action_type, env_lower)
       THEN FALSE
     ELSE IF /\ action_type = Str_scale
             /\ DictGet(params, "replicas", DictGet(params, "replica_count", Absent)) = Some(0)
             /\ env_lower = Str_production
       THEN FALSE
     ELSE IF /\ action_type = Str_rollback
             /\ env_lower = Str_production
             /\ DictGet(params, "explicit_approval", Some(FALSE)) # Some(TRUE)
       THEN FALSE
     ELSE TRUE

----------------------------------------------------------------------------
(* The investigation state (AgentState), restricted to the fields the      *)
(* routing, the policy gate and the executor read or write.                *)

Plan(actions, risk_level, requires_approval) ==
  [actions |-> actions, risk_level |-> risk_level, requires_approval |-> requires_approval]

\* the registered clusters
Clusters == {"c1", "c2"}

\* the nodes of which a run records the visits
Nodes == {"prepare", "investigation_swarm", "reflector", "planner", "policy_gate",
          "executor", "verifier", "aggregate"}

\* indices of the plan's actions that evaluate_action blocks
BlockedActions(plan, alert_context) ==
  {i \in DOMAIN plan.actions :
     ~evaluate_action(plan.actions[i], get_environment_from_context(alert_context),
                      calculate_risk_score(plan))}

\* the approval condition of _policy_gate_node
GateNeedsApprovalMutant(st) == FALSE

GateNeedsApproval(st) ==
  st.remediation_plan.requires_approval /\ st.approval_status # "APPROVED"

\* _policy_gate_node: the state after the node's output is merged
policy_gate_node(st) ==
  IF st.remediation_plan = NoneRec
  THEN [st EXCEPT !.next = "aggregate", !.ooda_phase = "COMPLETE"]
  ELSE IF BlockedActions(st.remediation_plan, st.alert_context) # {}
  THEN [st EXCEPT !.approval_status = "PENDING", !.next = "aggregate", !.ooda_phase = "ACT",
                  !.blocked_actions = BlockedActions(st.remediation_plan, st.alert_context)]
  ELSE IF GateNeedsApproval(st)
  THEN [st EXCEPT !.approval_status = "PENDING", !.next = "aggregate", !.ooda_phase = "ACT"]
  ELSE [st EXCEPT !.approval_status = "APPROVED", !.next = "executor", !.ooda_phase = "ACT"]

\* the conditional edge after policy_gate: state.get("next", "aggregate")
route_policy_gate(st) == st.next

\* _prepare_initial_state
prepare_initial_state(st) ==
  [st EXCEPT !.ooda_phase = "OBSERVE", !.next = "investigation_swarm",
             !.investigation_count = 0]

\* _investigation_swarm; agents_available is all([kubernetes_agent, metrics_agent, logs_agent])
investigation_swarm(st, agents_available) ==
  IF ~agents_available
  THEN [st EXCEPT !.findings = TRUE, !.ooda_phase = "ORIENT", !.next = "reflector"]
  ELSE [st EXCEPT !.findings = TRUE, !.ooda_phase = "ORIENT", !.next = "reflector",
                  !.investigation_count = @ + 1]

\* investigation_swarm_with_agents: the graph's node, which always supplies the agents
investigation_swarm_with_agents(st) == investigation_swarm(st, TRUE)

\* the limit of investigations in _reflector_node
MaxInvestigations == 3

\* the answers of the reflection oracle: it raises, or returns a ReflectorAnalysis
ReflectorAnswers ==
  {[ok |-> FALSE, requires_deeper_investigation |-> FALSE, recommended_agents |-> FALSE]}
  \cup [ok : {TRUE}, requires_deeper_investigation : BOOLEAN, recommended_agents : BOOLEAN]

\* the loop condition of _reflector_node
ReflectorLoopsMutant(st, analysis) ==
  /\ analysis.requires_deeper_investigation
  /\ analysis.recommended_agents

ReflectorLoops(st, analysis) ==
  /\ analysis.requires_deeper_investigation
  /\ analysis.recommended_agents
  /\ st.investigation_count < MaxInvestigations

\* _reflector_node; recommended_agents is whether the list is non-empty
reflector_node(st, oracle) ==
  IF ~st.findings
  THEN [st EXCEPT !.next = "planner", !.ooda_phase = "DECIDE"]
  ELSE IF ~oracle.ok
  THEN [st EXCEPT !.next = "planner", !.ooda_phase = "DECIDE"]
  ELSE IF ReflectorLoops(st, oracle)
  THEN [st EXCEPT !.next = "investigation_swarm", !.ooda_phase = "OBSERVE"]
  ELSE [st EXCEPT !.next = "planner", !.ooda_phase = "DECIDE"]

\* _route_reflector: state.get("next", "planner")
route_reflector(st) == st.next

\* the fallback plan of _planner_node
FallbackPlan == Plan(<<Act(Str_escalate, Str_manual_review, NoParams)>>, "high", TRUE)

\* a planner whose fallback plan counts as approved
planner_node_mutant(st, oracle) ==
  IF oracle # NoneRec
  THEN [st EXCEPT !.remediation_plan = oracle, !.next = "policy_gate", !.ooda_phase = "ACT",
                  !.approval_status =
                     IF oracle.requires_approval THEN "PENDING" ELSE "APPROVED"]
  ELSE [st EXCEPT !.remediation_plan = FallbackPlan, !.next = "policy_gate",
                  !.ooda_phase = "ACT", !.approval_status = "APPROVED"]

\* _planner_node; oracle is the plan the planning oracle returns, or NoneRec when it raises
planner_node(st, oracle) ==
  IF oracle # NoneRec
  THEN [st EXCEPT !.remediation_plan = oracle, !.next = "policy_gate", !.ooda_phase = "ACT",
                  !.approval_status =
                     IF oracle.requires_approval THEN "PENDING" ELSE "APPROVED"]
  ELSE [st EXCEPT !.remediation_plan = FallbackPlan, !.next = "policy_gate",
                  !.ooda_phase = "ACT", !.approval_status = "PENDING"]

\* the outcomes of one action of the executor's loop: the tool returned, the tool (or
\* the preparation of its arguments) raised, no tool has the mapped name
ActionOutcomes == {"ok", "error_text", "raise", "not_found"}

\* the tool call of the action came back with a value: the tool's result, or, from
\* a wrapped tool whose attempts all failed, the tool-error response of safe_ainvoke
ToolReturned(outcome) == outcome \in {"ok", "error_text"}

\* the indices of the actions for which a tool was invoked
InvokedActions(plan, outcomes) ==
  {i \in DOMAIN plan.actions : outcomes[i] \in {"ok", "error_text", "raise"}}

\* the audit rows the executor's loop writes: none when the backend cannot be imported
\* or the metadata holds no cluster_id, none for an action whose tool is not found
ExecutorAudits(plan, outcomes, cluster_id, crud) ==
  IF ~crud \/ cluster_id = Absent THEN {}
  ELSE {[cluster_id |-> cluster_id[1], action |-> i,
         outcome |-> IF ToolReturned(outcomes[i]) THEN "SUCCESS" ELSE "FAILED"] :
          i \in InvokedActions(plan, outcomes)}

\* the break-glass check at the entry of _executor_node
ExecutorLockCheckMutant(st, locked) == FALSE

ExecutorLockCheck(st, locked) == st.cluster_id # Absent /\ locked

\* the approval check of _executor_node: the plan is not approved
ExecutorApprovalCheckMutant(st) == FALSE

ExecutorApprovalCheck(st) == st.approval_status # "APPROVED"

\* _executor_node.  locked is storage.is_cluster_locked(cluster_id), tools whether
\* metadata["tools"] is non-empty, outcomes the outcome of each action, crud whether
\* the backend is importable.  Yields the merged state, the actions for which a tool
\* was invoked and the audit rows written.
executor_node(st, locked, tools, outcomes, crud) ==
  IF ExecutorLockCheck(st, locked)
  THEN [st |-> [st EXCEPT !.execution_status = "ABORTED", !.next = "aggregate",
                          !.ooda_phase = "COMPLETE"],
        invoked |-> {}, audits |-> {}]
  ELSE IF ExecutorApprovalCheck(st)
  THEN [st |-> [st EXCEPT !.execution_status = "FAILED", !.next = "aggregate",
                          !.ooda_phase = "COMPLETE"],
        invoked |-> {}, audits |-> {}]
  ELSE IF st.remediation_plan = NoneRec
  THEN [st |-> [st EXCEPT !.next = "aggregate", !.ooda_phase = "COMPLETE"],
        invoked |-> {}, audits |-> {}]
  ELSE IF ~tools
  THEN [st |-> [st EXCEPT !.execution_status = "FAILED", !.next = "aggregate",
                          !.ooda_phase = "COMPLETE"],
        invoked |-> {}, audits |-> {}]
  ELSE [st |-> [st EXCEPT !.execution_status =
                             IF \E i \in DOMAIN outcomes : ~ToolReturned(outcomes[i])
                             THEN "PARTIAL" ELSE "COMPLETED",
                          !.next = "verifier", !.ooda_phase = "VERIFY"],
        invoked |-> InvokedActions(st.remediation_plan, outcomes),
        audits |-> ExecutorAudits(st.remediation_plan, outcomes, st.cluster_id, crud)]

\* _verifier_node; measured is the status the metric comparison gives
verifier_node(st, measured) ==
  IF st.remediation_plan = NoneRec \/ st.alert_context = NoneRec
  THEN [st EXCEPT !.next = "aggregate", !.ooda_phase = "COMPLETE"]
  ELSE [st EXCEPT !.verification = measured, !.next = "aggregate",
                  !.ooda_phase = "COMPLETE"]

\* supervisor.aggregate_responses: writes the final response
aggregate_responses(st) == [st EXCEPT !.final_response = TRUE]

\* current_execution_state.get("final_response", ...): the key is in the initial
\* state with value None, so the default is never taken
FinalResponse(st) == IF st.final_response THEN "final_response" ELSE "NONE"

\* the state a driver hands to the graph: webhook_alert (local mode, with the alert
\* context and no cluster_id) or run_graph_background_saas (cluster_id, no alert
\* context).  A key the dict does not hold reads as its default.
InitialState(alert_context, cluster_id) ==
  [investigation_count |-> 0, next |-> "investigation_swarm", ooda_phase |-> "OBSERVE",
   approval_status |-> "NONE", remediation_plan |-> NoneRec,
   alert_context |-> alert_context, cluster_id |-> cluster_id, findings |-> FALSE,
   blocked_actions |-> {}, execution_status |-> "NONE", verification |-> "NONE",
   final_response |-> FALSE]

Labels(environment, env, namespace) ==
  [labels |-> [environment |-> environment, env |-> env, namespace |-> namespace]]

----------------------------------------------------------------------------
(* The components at rest.                                                  *)

PolicyIdle == pe = [call |-> "none"]

JobsIdle == jobs = <<>> /\ inflight = {} /\ clock = 0 /\ resp = [code |-> 0]

EngineIdle ==
  /\ runs = <<>> /\ snapshot = NoneRec /\ slog = <<>> /\ locks = {} /\ audit = {}
  /\ incident = "NONE" /\ summary = "NONE" /\ approvals = <<>> /\ lockOps = 0

\* _CIRCUIT_BREAKER_STATE of one tool as the module is imported, an empty
\* AgentAuditLog table, and no call made
ToolsIdle ==
  tw = [failures |-> 0, last_failure |-> Absent, is_open |-> FALSE,
        log |-> <<>>, now |-> 0, calls |-> 0, dbFaults |-> 0,
        streak |-> 0, failed_at |-> 0, last |-> NoneRec,
        flying |-> [plain |-> 0, probe |-> 0]]

toolVars == <<tw>>

\* the most append_log calls on one log list
MaxAppenders == 3

\* Redis is reachable, the log list does not exist and no append_log call is
\* under way
StoreIdle ==
  /\ up = TRUE
  /\ ls = [list |-> <<>>, ttl |-> FALSE, pc |-> [a \in 1..MaxAppenders |-> "idle"]]

storeVars == <<up, ls>>

\* the most jobs the dashboard creates for the worker's cluster
MaxWorkerJobs == 2

\* the edge worker before its first poll
WorkerIdle ==
  wk = [pc |-> "poll", job |-> 0, job_type |-> "none", logs |-> 0, events |-> 0,
        posts |-> <<>>, raised |-> FALSE, execs |-> 0,
        moves |-> [j \in 1..MaxWorkerJobs |-> 0],
        consecutive_errors |-> 0, wait |-> 0, polls |-> 0, polled |-> NoneRec]

workerVars == <<wk>>

\* the domain agents the swarm runs, in the order of its task list
Agents == <<"kubernetes_agent", "metrics_agent", "logs_agent", "github_agent">>

\* a run that has not reached investigation_swarm: no task, agent_results = {}
\* and investigation_count = 0 as _prepare_initial_state leaves them
SwarmIdle ==
  sw = [pc |-> "prepare", tasks |-> [a \in 1..Len(Agents) |-> "none"],
        agent_results |-> [a \in 1..Len(Agents) |-> "NONE"],
        investigation_count |-> 0, visits |-> 0]

swarmVars == <<sw>>

policyVars == <<pe>>

jobVars == <<jobs, inflight, clock, resp>>

engineVars == <<runs, snapshot, slog, locks, audit, incident, summary, approvals, lockOps>>

----------------------------------------------------------------------------
(* The graph, its drivers and the session state store.                      *)

\* json.loads(json.dumps(state, default=str)): the state as the store returns it
JsonRoundTrip(st) ==
  [st EXCEPT !.alert_context = IF @ = NoneRec THEN NoneRec ELSE Stringified,
             !.remediation_plan = IF @ = NoneRec THEN NoneRec ELSE Stringified]

\* the f-string of _investigation_swarm reads alert_context.alert_name: it raises
\* AttributeError on an alert context that came back from the store as a string
SwarmRaises(st) == st.alert_context = Stringified

\* the edges of the compiled graph: the node that runs after `node`, "end" for END
NextNode(node, st) ==
  CASE node = "prepare" -> "investigation_swarm"
    [] node = "investigation_swarm" -> "reflector"
    [] node = "reflector" -> route_reflector(st)
    [] node = "planner" -> "policy_gate"
    [] node = "policy_gate" -> route_policy_gate(st)
    [] node = "executor" -> "verifier"
    [] node = "verifier" -> "aggregate"
    [] node = "aggregate" -> "end"

\* a run of the compiled graph: agent_graph.astream(input) starts at the entry point
NewRun(kind, st) ==
  [kind |-> kind, pc |-> "prepare", st |-> st,
   visits |-> [n \in Nodes |-> 0],
   gate_in |-> NoneRec, exec_in |-> NoneRec, tool_calls |-> {},
   reflect |-> NoneRec, planned |-> NoneRec]

\* a run whose coroutine has returned or raised: its local state is gone
Returned(kind, pc) == [NewRun(kind, InitialState(NoneRec, Absent)) EXCEPT !.pc = pc]

\* the answer of the approval call that started run i becomes known
Answer(i, code) ==
  [k \in DOMAIN approvals |->
     IF approvals[k].run = i THEN [approvals[k] EXCEPT !.code = code] ELSE approvals[k]]

\* the plans the planning oracle returns
EnginePlans ==
  {Plan(<<Act(Str_restart, Str_pod_x, NoParams)>>, "low", FALSE),
   Plan(<<Act(Str_delete, Str_pod_x, NoParams)>>, "low", FALSE),
   Plan(<<Act(Str_scale, Str_api, [NoParams EXCEPT !.replicas = Some(3)])>>, "medium", TRUE),
   Plan(<<Act(Str_scale, Str_api, [NoParams EXCEPT !.replicas = Some(3)]),
          Act(Str_delete_pod, Str_pod_x, NoParams)>>, "low", FALSE)}

\* the alert contexts of the local-mode webhook
LocalAlertContexts == {Labels(<<>>, <<>>, <<>>)}

\* RedisStateStore.delete on the session key: what the key holds afterwards
StoreDeleteMutant(value) == value

StoreDelete(value) == IF up THEN NoneRec ELSE value

\* a set that writes although Redis is not reachable
StoreSetMutant(current, value) == value

\* RedisStateStore.set on the session key: what the key holds afterwards; nothing
\* is written (and False returned) when Redis is not reachable
StoreSet(current, value) == IF up THEN value ELSE current

\* RedisStateStore.get on the session key: None when Redis is not reachable
StoreGet(current) == IF up THEN current ELSE NoneRec

\* RedisStateStore.append_log, one call per message: the list afterwards
StoreAppendLog(log, messages) == IF up THEN log \o messages ELSE log

\* the event handling of the drivers after node `node` of run r produced state st:
\* run_graph_background logs, stores the state and pauses on a PENDING policy gate;
\* approve_remediation stores nothing
Paused(kind, node, st_in, st) ==
  /\ kind = "local"
  /\ node = "policy_gate"
  /\ st_in.remediation_plan # NoneRec
  /\ st.approval_status = "PENDING"

Deliver(i, node, st, run) ==
  LET r == runs[i]
      paused == Paused(r.kind, node, r.st, st)
      after == [run EXCEPT !.st = st, !.visits[node] = @ + 1,
                           !.pc = IF paused THEN "paused" ELSE NextNode(node, st)]
  IN /\ runs' = [runs EXCEPT ![i] = after]
     /\ IF r.kind = "approve"
        THEN UNCHANGED <<snapshot, slog>>
        ELSE /\ slog' = StoreAppendLog(slog, IF paused THEN <<node, "PAUSED">> ELSE <<node>>)
             /\ snapshot' = StoreSet(snapshot,
                                      [status |-> IF paused THEN "WAITING_APPROVAL"
                                                  ELSE "RUNNING",
                                       state |-> Some(JsonRoundTrip(st))])

\* the most calls of POST /approve/{session_id}
MaxApproveCalls == 2

AtNode(i, node) == i \in DOMAIN runs /\ runs[i].pc = node

\* webhook_alert in local mode starts run_graph_background, which stores the first
\* snapshot (no state yet) and the first log line
StartLocal ==
  /\ runs = <<>>
  /\ \E alert_context \in LocalAlertContexts :
       runs' = <<NewRun("local", InitialState(alert_context, Absent))>>
  /\ snapshot' = StoreSet(snapshot, [status |-> "RUNNING", state |-> Absent])
  /\ slog' = StoreAppendLog(slog, <<"started">>)
  /\ UNCHANGED <<locks, audit, incident, summary, approvals, lockOps, policyVars, jobVars, toolVars, storeVars, workerVars,
                 swarmVars>>

Prepare ==
  /\ \E i \in DOMAIN runs :
       /\ AtNode(i, "prepare")
       /\ Deliver(i, "prepare", prepare_initial_state(runs[i].st), runs[i])
  /\ UNCHANGED <<locks, audit, incident, summary, approvals, lockOps, policyVars, jobVars, toolVars, storeVars, workerVars,
                 swarmVars>>

\* the swarm node; when it raises, astream raises: approve_remediation answers 500,
\* run_graph_background stores the ERROR snapshot
InvestigationSwarm ==
  /\ \E i \in DOMAIN runs :
       /\ AtNode(i, "investigation_swarm")
       /\ IF SwarmRaises(runs[i].st)
          THEN /\ runs' = [runs EXCEPT ![i] = Returned(runs[i].kind, "error")]
               /\ IF runs[i].kind = "approve"
                  THEN /\ approvals' = Answer(i, 500)
                       /\ UNCHANGED <<snapshot, slog>>
                  ELSE /\ snapshot' = StoreSet(snapshot, [status |-> "ERROR", state |-> Absent])
                       /\ slog' = StoreAppendLog(slog, <<"Error">>)
                       /\ UNCHANGED approvals
          ELSE /\ Deliver(i, "investigation_swarm",
                          investigation_swarm_with_agents(runs[i].st), runs[i])
               /\ UNCHANGED approvals
  /\ UNCHANGED <<locks, audit, incident, summary, lockOps, policyVars, jobVars, toolVars, storeVars, workerVars,
                 swarmVars>>

Reflector ==
  /\ \E i \in DOMAIN runs, oracle \in ReflectorAnswers :
       /\ AtNode(i, "reflector")
       /\ LET out == reflector_node(runs[i].st, oracle) IN
            Deliver(i, "reflector", out,
                    [runs[i] EXCEPT
                       !.reflect = [oracle |-> oracle,
                                    count |-> runs[i].st.investigation_count,
                                    routed |-> route_reflector(out),
                                    always |-> /\ (@ = NoneRec \/ @.always)
                                               /\ oracle.ok
                                               /\ oracle.requires_deeper_investigation
                                               /\ oracle.recommended_agents]])
  /\ UNCHANGED <<locks, audit, incident, summary, approvals, lockOps, policyVars, jobVars, toolVars, storeVars, workerVars,
                 swarmVars>>

Planner ==
  /\ \E i \in DOMAIN runs, oracle \in EnginePlans \cup {NoneRec} :
       /\ AtNode(i, "planner")
       /\ Deliver(i, "planner", planner_node(runs[i].st, oracle),
                  [runs[i] EXCEPT !.reflect = NoneRec,
                                  !.planned = [oracle |-> oracle]])
  /\ UNCHANGED <<locks, audit, incident, summary, approvals, lockOps, policyVars, jobVars, toolVars, storeVars, workerVars,
                 swarmVars>>

\* storage.is_cluster_locked(cluster_id): False when Redis is not reachable
is_cluster_locked(cluster_id) == up /\ cluster_id \in locks

\* the lock of the cluster named in the state's metadata is held
ClusterLocked(st) == st.cluster_id # Absent /\ is_cluster_locked(st.cluster_id[1])

PolicyGate ==
  /\ \E i \in DOMAIN runs :
       /\ AtNode(i, "policy_gate")
       /\ Deliver(i, "policy_gate", policy_gate_node(runs[i].st),
                  [runs[i] EXCEPT
                     !.gate_in = [approval_status |-> runs[i].st.approval_status,
                                  locked |-> ClusterLocked(runs[i].st)]])
  /\ UNCHANGED <<locks, audit, incident, summary, approvals, lockOps, policyVars, jobVars, toolVars, storeVars, workerVars,
                 swarmVars>>

\* crud.create_audit_event: the row written; run is the engine run that wrote it
\* (0 for a user's request), action the index of the plan's action (0 for none)
AuditRow(run, cluster_id, action_type, action, outcome) ==
  [run |-> run, cluster_id |-> cluster_id, action_type |-> action_type,
   action |-> action, outcome |-> outcome]

\* the outcomes of the actions of a plan, one per action
OutcomesOf(plan) ==
  IF plan = NoneRec \/ plan = Stringified THEN {<<>>}
  ELSE [DOMAIN plan.actions -> ActionOutcomes]

Executor ==
  /\ \E i \in DOMAIN runs, tools \in BOOLEAN, crud \in BOOLEAN :
       /\ AtNode(i, "executor")
       /\ \E outcomes \in OutcomesOf(runs[i].st.remediation_plan) :
            LET st == runs[i].st
                locked == ClusterLocked(st)
                out == executor_node(st, locked, tools, outcomes, crud)
            IN /\ Deliver(i, "executor", out.st,
                          [runs[i] EXCEPT
                             !.exec_in = [approval_status |-> st.approval_status,
                                          locked |-> locked],
                             !.tool_calls = @ \cup out.invoked])
               /\ audit' = audit \cup
                            {AuditRow(i, a.cluster_id, "REMEDIATION", a.action, a.outcome) :
                               a \in out.audits}
  /\ UNCHANGED <<locks, incident, summary, approvals, lockOps, policyVars, jobVars, toolVars, storeVars, workerVars,
                 swarmVars>>

Verifier ==
  /\ \E i \in DOMAIN runs, measured \in {"RESOLVED", "FAILED"} :
       /\ AtNode(i, "verifier")
       /\ Deliver(i, "verifier", verifier_node(runs[i].st, measured), runs[i])
  /\ UNCHANGED <<locks, audit, incident, summary, approvals, lockOps, policyVars, jobVars, toolVars, storeVars, workerVars,
                 swarmVars>>

Aggregate ==
  /\ \E i \in DOMAIN runs :
       /\ AtNode(i, "aggregate")
       /\ Deliver(i, "aggregate", aggregate_responses(runs[i].st), runs[i])
  /\ UNCHANGED <<locks, audit, incident, summary, approvals, lockOps, policyVars, jobVars, toolVars, storeVars, workerVars,
                 swarmVars>>

\* the end of a run: run_graph_background stores the COMPLETED snapshot,
\* run_graph_background_saas resolves the incident, approve_remediation answers
Finish ==
  /\ \E i \in DOMAIN runs :
       /\ AtNode(i, "end")
       /\ runs' = [runs EXCEPT ![i] = Returned(runs[i].kind, "done")]
       /\ CASE runs[i].kind = "local" ->
                 /\ slog' = StoreAppendLog(slog, <<"Complete">>)
                 /\ snapshot' = StoreSet(snapshot, [status |-> "COMPLETED", state |-> Absent])
                 /\ UNCHANGED <<approvals, incident, summary>>
            [] runs[i].kind = "saas" ->
                 /\ slog' = StoreAppendLog(slog, <<"Complete">>)
                 /\ incident' = "RESOLVED"
                 /\ summary' = FinalResponse(runs[i].st)
                 /\ UNCHANGED <<approvals, snapshot>>
            [] runs[i].kind = "approve" ->
                 /\ approvals' = Answer(i, 200)
                 /\ UNCHANGED <<snapshot, slog, incident, summary>>
  /\ UNCHANGED <<locks, audit, lockOps, policyVars, jobVars, toolVars, storeVars, workerVars,
                 swarmVars>>

\* approve_remediation up to its first await: get, the two checks, delete, and the
\* start of the graph on the stored state.  An approval records what it found, its
\* answer so far and the run it started (0 for none).
Approve ==
  /\ Len(approvals) < MaxApproveCalls
  /\ LET pending_data == StoreGet(snapshot) IN
       IF pending_data = NoneRec
       THEN /\ approvals' = Append(approvals, [found |-> "ABSENT", code |-> 404, run |-> 0])
            /\ UNCHANGED <<runs, snapshot>>
       ELSE IF pending_data.state = Absent
       THEN /\ approvals' = Append(approvals,
                                   [found |-> pending_data.status, code |-> 400, run |-> 0])
            /\ UNCHANGED <<runs, snapshot>>
       ELSE /\ approvals' = Append(approvals,
                                   [found |-> pending_data.status, code |-> 0,
                                    run |-> Len(runs) + 1])
            /\ snapshot' = StoreDelete(snapshot)
            /\ runs' = Append(runs,
                              NewRun("approve",
                                     [pending_data.state[1] EXCEPT
                                        !.approval_status = "APPROVED",
                                        !.next = "executor"]))
  /\ UNCHANGED <<slog, locks, audit, incident, summary, lockOps, policyVars, jobVars, toolVars, storeVars, workerVars,
                 swarmVars>>

\* the TTL of the session key elapses
ExpireSnapshot ==
  /\ snapshot # NoneRec
  /\ snapshot' = NoneRec
  /\ UNCHANGED <<runs, slog, locks, audit, incident, summary, approvals, lockOps,
                 policyVars, jobVars, toolVars, storeVars, workerVars, swarmVars>>

Init == PolicyIdle /\ JobsIdle /\ EngineIdle /\ ToolsIdle /\ StoreIdle /\ WorkerIdle /\ SwarmIdle

Next ==
  \/ StartLocal \/ Prepare \/ InvestigationSwarm \/ Reflector \/ Planner \/ PolicyGate
  \/ Executor \/ Verifier \/ Aggregate \/ Finish \/ Approve \/ ExpireSnapshot

Spec == Init /\ [][Next]_vars

\* a run whose coroutine has not returned
Live(r) == r.pc \notin {"done", "error"}

\* run i was started by an Approve call that found the paused snapshot
ResumesPause(i) ==
  \E k \in DOMAIN approvals :
    approvals[k].run = i /\ approvals[k].found = "WAITING_APPROVAL"

BeforeExecutor == {"prepare", "investigation_swarm", "reflector", "planner", "policy_gate"}

\* C7: within one investigation, investigation_count never decreases and never
\* exceeds 3, also in the run that Approve starts on the state of a paused run.
C7_CountMonotoneBounded ==
  /\ [](\A i \in DOMAIN runs : runs[i].st.investigation_count <= 3)
  /\ [][\A i \in DOMAIN runs :
          (Live(runs'[i]) /\ (runs[i].kind = "approve" => ResumesPause(i))) =>
            runs'[i].st.investigation_count >= runs[i].st.investigation_count]_vars

\* C8: the reflector routes back to the swarm iff the oracle answered, asked for a
\* deeper investigation, recommended at least one agent and investigation_count < 3;
\* otherwise (also when the oracle fails) it routes to the planner.  When every
\* answer asked for a deeper investigation, the run arrives at the planner with
\* exactly three visits of the swarm.
C8_ReflectorRouting ==
  \A i \in DOMAIN runs :
    LET r == runs[i] IN
      r.reflect # NoneRec =>
        /\ r.reflect.routed =
              IF /\ r.reflect.oracle.ok
                 /\ r.reflect.oracle.requires_deeper_investigation
                 /\ r.reflect.oracle.recommended_agents
                 /\ r.reflect.count < 3
              THEN "investigation_swarm" ELSE "planner"
        /\ r.visits["reflector"] = r.visits["investigation_swarm"]
             => r.pc = r.reflect.routed
        /\ (r.pc = "planner" /\ r.reflect.always)
             => r.visits["investigation_swarm"] = 3

\* the oracle asked for a deeper investigation every time and the run is at the
\* planner after three visits of the swarm
C8_Witness ==
  \E i \in DOMAIN runs :
    /\ runs[i].pc = "planner"
    /\ runs[i].reflect # NoneRec
    /\ runs[i].reflect.always
    /\ runs[i].visits["investigation_swarm"] = 3
    /\ runs[i].visits["reflector"] = 3

\* the runs whose planner has run, with what the planning oracle did
PlannedRuns == {i \in DOMAIN runs : runs[i].planned # NoneRec}

\* C34: when the planning oracle fails, the planner produces a fallback plan with
\* a single escalate action on manual_review, risk level high and
\* requires_approval, sets approval_status PENDING and routes to the policy gate,
\* so that no tool is executed in that run; when the oracle succeeds,
\* approval_status is PENDING iff the plan requires approval, else APPROVED.
C34_PlannerFallbackNeedsApproval ==
  \A i \in PlannedRuns :
    LET r == runs[i]
        plan == r.st.remediation_plan
        oracle == r.planned.oracle
    IN /\ r.pc = "policy_gate" \/ r.visits["policy_gate"] > 0
       /\ oracle = NoneRec =>
            /\ Len(plan.actions) = 1
            /\ plan.actions[1].action_type = Str_escalate
            /\ plan.actions[1].target = Str_manual_review
            /\ plan.risk_level = "high"
            /\ plan.requires_approval
            /\ r.pc = "policy_gate" => r.st.approval_status = "PENDING"
            /\ r.st.approval_status # "APPROVED"
            /\ r.visits["executor"] = 0
            /\ r.tool_calls = {}
       /\ (oracle # NoneRec /\ r.pc = "policy_gate") =>
            /\ plan = oracle
            /\ r.st.approval_status = "PENDING" <=> plan.requires_approval
            /\ r.st.approval_status = "APPROVED" <=> ~plan.requires_approval

\* the planning oracle failed and the run went through the policy gate to
\* aggregate with the fallback plan still pending
C34_Witness ==
  \E i \in PlannedRuns :
    /\ runs[i].planned.oracle = NoneRec
    /\ runs[i].visits["policy_gate"] = 1
    /\ runs[i].pc \in {"paused", "aggregate", "end"}
    /\ runs[i].st.approval_status = "PENDING"

\* a step in which POST /approve/{session_id} is called
Approving == Len(approvals') = Len(approvals) + 1

\* C37: Approve starts an engine run only if the stored snapshot of the session
\* has status WAITING_APPROVAL; on a snapshot with status RUNNING, COMPLETED or
\* ERROR it starts no run, executes no action and leaves the snapshot in place.
C37_ApproveOnlyWhenWaiting ==
  [][Approving =>
       LET a == approvals'[Len(approvals')] IN
         /\ a.run # 0 => a.found = "WAITING_APPROVAL"
         /\ a.found \in {"RUNNING", "COMPLETED", "ERROR"} =>
              /\ a.run = 0
              /\ runs' = runs
              /\ snapshot' = snapshot]_vars

\* an Approve on a snapshot that holds no state (the first RUNNING snapshot, and
\* the COMPLETED and ERROR ones) is refused and changes nothing
ApproveWithoutStateRefused ==
  [][(Approving /\ StoreGet(snapshot) # NoneRec /\ StoreGet(snapshot).state = Absent) =>
       /\ approvals'[Len(approvals')].code = 400
       /\ approvals'[Len(approvals')].run = 0
       /\ runs' = runs
       /\ snapshot' = snapshot]_vars

\* C9: the run that Approve starts on a paused session continues from the executor:
\* prepare, investigation_swarm, reflector, planner and policy_gate are not run
\* again, and the state it runs on holds the approved status and the stored plan.
C9_ResumesAtExecutor ==
  \A k \in DOMAIN approvals :
    (approvals[k].found = "WAITING_APPROVAL" /\ approvals[k].run # 0) =>
      LET r == runs[approvals[k].run] IN
        Live(r) =>
          /\ r.pc \notin BeforeExecutor
          /\ \A n \in BeforeExecutor : r.visits[n] = 0
          /\ r.st.approval_status = "APPROVED"

\* C10: approval is single-shot.  The session pauses at most once, and at most one
\* Approve call finds the paused snapshot and starts a run, under every interleaving
\* of the calls; a call that finds no snapshot is answered 404 and starts no run;
\* only calls that started a run have one.
C10_ApprovalSingleShot ==
  /\ Cardinality({k \in DOMAIN approvals :
                    approvals[k].found = "WAITING_APPROVAL" /\ approvals[k].run # 0}) <= 1
  /\ \A k \in DOMAIN approvals :
       approvals[k].found = "ABSENT" => approvals[k].code = 404 /\ approvals[k].run = 0
  /\ Cardinality({i \in DOMAIN runs : runs[i].kind = "approve"})
       = Cardinality({k \in DOMAIN approvals : approvals[k].run # 0})

\* a first Approve found the paused snapshot and started a run; a second one found
\* no snapshot and was answered 404
C10_Witness ==
  /\ Len(approvals) = 2
  /\ approvals[1].found = "WAITING_APPROVAL" /\ approvals[1].run # 0
  /\ approvals[2].found = "ABSENT" /\ approvals[2].code = 404 /\ approvals[2].run = 0

----------------------------------------------------------------------------
(* SpecSaas: a session driven by run_graph_background_saas for the agent's   *)
(* own cluster, with the break-glass endpoint toggling cluster locks.        *)

\* the cluster of the agent's CLUSTER_TOKEN
AgentClusters == {"c1"}

\* the most calls of POST /clusters/{id}/lock
MaxLockOps == 2

\* webhook_alert with a cluster token creates the incident and starts
\* run_graph_background_saas: incident INVESTIGATING, first snapshot and log line
StartSaas ==
  /\ runs = <<>>
  /\ \E c \in AgentClusters :
       runs' = <<NewRun("saas", InitialState(NoneRec, Some(c)))>>
  /\ incident' = "INVESTIGATING"
  /\ snapshot' = StoreSet(snapshot, [status |-> "RUNNING", state |-> Absent])
  /\ slog' = StoreAppendLog(slog, <<"started">>)
  /\ UNCHANGED <<locks, audit, summary, approvals, lockOps, policyVars, jobVars, toolVars, storeVars, workerVars,
                 swarmVars>>

\* RedisStateStore.set_cluster_lock: the key is set, or deleted; nothing is done
\* (and False returned) when Redis is not reachable
set_cluster_lock(cluster_id, locked) ==
  IF ~up THEN locks
  ELSE IF locked THEN locks \cup {cluster_id} ELSE locks \ {cluster_id}

\* POST /clusters/{cluster_id}/lock by an authenticated user; answers 500 and
\* writes no audit event when set_cluster_lock returns False
SetClusterLock ==
  /\ lockOps < MaxLockOps
  /\ lockOps' = lockOps + 1
  /\ \E c \in Clusters, locked \in BOOLEAN :
       /\ locks' = set_cluster_lock(c, locked)
       /\ audit' = IF up
                   THEN audit \cup {AuditRow(0, c, "EMERGENCY_LOCK_TOGGLE", 0, "SUCCESS")}
                   ELSE audit
  /\ UNCHANGED <<runs, snapshot, slog, incident, summary, approvals, policyVars, jobVars, toolVars, storeVars, workerVars,
                 swarmVars>>

InitSaas == PolicyIdle /\ JobsIdle /\ EngineIdle /\ ToolsIdle /\ StoreIdle /\ WorkerIdle /\ SwarmIdle

NextSaas ==
  \/ StartSaas \/ Prepare \/ InvestigationSwarm \/ Reflector \/ Planner \/ PolicyGate
  \/ Executor \/ Verifier \/ Aggregate \/ Finish \/ SetClusterLock \/ ExpireSnapshot

SpecSaas == InitSaas /\ [][NextSaas]_vars

\* C3: when the lock of the state's cluster is held at the entry of the executor,
\* that executor run invokes no tool, reports ABORTED and writes no audit row with
\* outcome SUCCESS, also when the lock was set after the policy gate had routed
\* to the executor.
C3_LockedExecutorAborts ==
  \A i \in DOMAIN runs :
    LET r == runs[i] IN
      (r.exec_in # NoneRec /\ r.exec_in.locked) =>
        /\ r.tool_calls = {}
        /\ r.st.execution_status = "ABORTED"
        /\ ~\E a \in audit : a.run = i /\ a.outcome = "SUCCESS"

\* the policy gate routed an approved plan to the executor while the cluster was not
\* locked, the lock was set before the executor was entered, and the run aborted
C3_Witness ==
  \E i \in DOMAIN runs :
    /\ runs[i].gate_in # NoneRec /\ ~runs[i].gate_in.locked
    /\ runs[i].exec_in # NoneRec /\ runs[i].exec_in.locked
    /\ runs[i].exec_in.approval_status = "APPROVED"
    /\ runs[i].st.execution_status = "ABORTED"

\* C5: the policy gate routes to the executor only when no action of the plan is
\* blocked and the plan does not require an approval it has not got; in every other
\* case the approval status is PENDING, the gate routes to aggregate and the
\* executor is not visited in that run.
C5_GateRouting ==
  \A i \in DOMAIN runs :
    LET r == runs[i]
        plan == r.st.remediation_plan
    IN (r.gate_in # NoneRec /\ plan # NoneRec) =>
         LET clear ==
               /\ \A j \in DOMAIN plan.actions :
                    evaluate_action(plan.actions[j],
                                    get_environment_from_context(r.st.alert_context),
                                    calculate_risk_score(plan))
               /\ ~(plan.requires_approval /\ r.gate_in.approval_status # "APPROVED")
         IN /\ (r.pc = "executor" \/ r.visits["executor"] > 0) => clear
            /\ ~clear =>
                 /\ r.st.approval_status = "PENDING"
                 /\ r.st.next = "aggregate"
                 /\ r.pc \in {"aggregate", "end"}
                 /\ r.visits["executor"] = 0

\* a plan with a blocked action was stopped at the gate and its run ended without
\* visiting the executor
C5_Witness ==
  \E i \in DOMAIN runs :
    /\ runs[i].gate_in # NoneRec
    /\ runs[i].st.blocked_actions # {}
    /\ runs[i].st.approval_status = "PENDING"
    /\ runs[i].pc = "end"
    /\ runs[i].visits["executor"] = 0

----------------------------------------------------------------------------
(* SpecPolicy: the policy engine and the policy gate called on every input  *)
(* of a pool.                                                               *)

\* the largest doubled risk score (the cap 10.0 of calculate_risk_score)
MaxRisk2 == 20

ActionTypePool ==
  {Str_restart, Str_Restart_cap, Str_delete, Str_Delete_cap, Str_delete_pod,
   Str_force_delete, Str_patch, Str_scale, Str_rollback, Str_escalate}

ParamsPool ==
  {NoParams,
   [NoParams EXCEPT !.replicas = Some(0)],
   [NoParams EXCEPT !.replicas = Some(3)],
   [NoParams EXCEPT !.replica_count = Some(0)],
   [NoParams EXCEPT !.explicit_approval = Some(TRUE)],
   [NoParams EXCEPT !.explicit_approval = Some(FALSE)]}

EnvPool == {Str_production, Str_Production_cap, Str_staging}

\* doubled risk scores on both sides of rule 1's threshold (3.0), and the cap
RiskPool == {5, 6, MaxRisk2}

AlertContextPool ==
  {NoneRec, Stringified,
   Labels(<<>>, Str_staging, <<>>),
   Labels(<<>>, <<>>, <<>>)}

\* the action types of the plans handed to the gate
GateTypePool == {Str_restart, Str_delete, Str_delete_pod, Str_force_delete, Str_scale}

GatePlans ==
  {Plan(<<Act(t, Str_pod_x, NoParams)>>, lvl, ra) :
     t \in GateTypePool, lvl \in {"low", "high"}, ra \in BOOLEAN}
  \cup {Plan(<<Act(Str_scale, Str_api, [NoParams EXCEPT !.replicas = Some(3)]),
                Act(t, Str_pod_x, NoParams)>>, "low", ra) :
           t \in GateTypePool, ra \in BOOLEAN}

\* evaluate_action(action, environment, risk_score) is called
EvaluateAction ==
  /\ \E t \in ActionTypePool, params \in ParamsPool, environment \in EnvPool,
        risk2 \in RiskPool :
       pe' = [call |-> "evaluate_action", action |-> Act(t, Str_pod_x, params),
              environment |-> environment, risk2 |-> risk2,
              allowed |-> evaluate_action(Act(t, Str_pod_x, params), environment, risk2)]
  /\ UNCHANGED <<jobVars, engineVars, toolVars, storeVars, workerVars, swarmVars>>

\* the policy gate is run on a state holding a plan, or none
EvaluateGate ==
  /\ \E plan \in GatePlans \cup {NoneRec}, alert_context \in AlertContextPool,
        approval_status \in {"PENDING", "APPROVED"} :
       LET st == [InitialState(alert_context, Absent) EXCEPT
                    !.remediation_plan = plan, !.approval_status = approval_status,
                    !.next = "policy_gate"]
       IN pe' = [call |-> "policy_gate", st |-> st, out |-> policy_gate_node(st)]
  /\ UNCHANGED <<jobVars, engineVars, toolVars, storeVars, workerVars, swarmVars>>

InitPolicy == PolicyIdle /\ JobsIdle /\ EngineIdle /\ ToolsIdle /\ StoreIdle /\ WorkerIdle /\ SwarmIdle

NextPolicy == EvaluateAction \/ EvaluateGate

SpecPolicy == InitPolicy /\ [][NextPolicy]_vars

\* an action whose type, in any case, contains "delete"
IsDeleteAction(action) == StrContains(Str_delete, StrLower(action.action_type))

\* C4: every action whose type contains "delete" (in any case: delete, delete_pod,
\* force-delete) is blocked by evaluate_action in production, and the policy gate
\* never routes a plan holding such an action in production to the executor.
C4_DeleteBlockedInProduction ==
  /\ (/\ pe.call = "evaluate_action"
      /\ IsDeleteAction(pe.action)
      /\ StrLower(pe.environment) = Str_production)
       => ~pe.allowed
  /\ (/\ pe.call = "policy_gate"
      /\ pe.st.remediation_plan # NoneRec
      /\ get_environment_from_context(pe.st.alert_context) = Str_production
      /\ \E i \in DOMAIN pe.st.remediation_plan.actions :
            IsDeleteAction(pe.st.remediation_plan.actions[i]))
       => route_policy_gate(pe.out) # "executor"

\* the replicas a scale action asks for: the key replicas, else replica_count
TargetReplicas(params) ==
  IF params.replicas # Absent THEN params.replicas ELSE params.replica_count

\* the rule table of the policy engine, for an action whose type does not contain
\* "delete": TRUE when the table allows it.  The risk threshold 3.0 is 6 doubled.
RuleTableAllows(action, environment, risk2) ==
  LET t == StrLower(action.action_type) IN
    IF StrLower(environment) # Str_production THEN TRUE
    ELSE IF t = Str_restart THEN risk2 < 6
    ELSE IF t = Str_scale THEN TargetReplicas(action.parameters) # Some(0)
    ELSE IF t = Str_rollback THEN action.parameters.explicit_approval = Some(TRUE)
    ELSE TRUE

\* C31: for every action, environment and risk score, evaluate_action agrees with
\* the rule table: in production restart is blocked iff risk_score >= 3, scale iff
\* its target replicas is 0, rollback iff its parameters do not carry
\* explicit_approval=true, every other non-delete action is allowed; outside
\* production every action is allowed.
C31_EvaluateActionFollowsRuleTable ==
  pe.call = "evaluate_action" =>
    /\ StrLower(pe.environment) # Str_production => pe.allowed
    /\ ~IsDeleteAction(pe.action) =>
         (pe.allowed <=> RuleTableAllows(pe.action, pe.environment, pe.risk2))

\* a restart in "Production" at risk 3.0 exactly, which is blocked
C31_Witness ==
  /\ pe.call = "evaluate_action"
  /\ pe.action.action_type = Str_Restart_cap
  /\ pe.environment = Str_Production_cap
  /\ pe.risk2 = 6
  /\ ~pe.allowed

----------------------------------------------------------------------------
(* SpecJobs: the job dispatcher.  A worker request is served in two steps,  *)
(* because the handler awaits the database: it authenticates and loads the  *)
(* job row (Begin), then update_job_status assigns the attributes and       *)
(* commits (Commit).  The session's unit of work writes the columns whose   *)
(* value differs from the loaded one.                                       *)

\* Cluster.token of each registered cluster
TokenOf(c) == IF c = "c1" THEN "t1" ELSE "t2"

\* the Authorization headers presented: with or without the "Bearer " prefix
AuthPool ==
  {[bearer |-> TRUE, token |-> "t1"], [bearer |-> TRUE, token |-> "t2"],
   [bearer |-> TRUE, token |-> "tX"], [bearer |-> FALSE, token |-> "t1"]}

\* the most jobs created
MaxJobs == 1

\* the most commits (datetime.utcnow() is the number of commits made)
MaxClock == 2

\* the most requests accepted and not yet committed
MaxInflight == 1

\* the clusters for which the dashboard triggers jobs
JobClusters == {"c1"}

JobStatus == {"pending", "running", "completed", "failed"}

\* crud.create_job: a new row, PENDING; created_at is the database's now() at the
\* INSERT (server_default), a time of its own that advances with every row
NewJob(cluster_id, now) ==
  [cluster_id |-> cluster_id, status |-> "pending", result |-> Absent, logs |-> <<>>,
   created_at |-> now, started_at |-> Absent, completed_at |-> Absent]

\* trigger_job, for a cluster of the user's organisation, while fewer than
\* max_jobs rows exist
TriggerJob(clusters, max_jobs) ==
  /\ Len(jobs) < max_jobs
  /\ \E c \in clusters : jobs' = Append(jobs, NewJob(c, Len(jobs)))
  /\ UNCHANGED <<inflight, clock, resp, policyVars, engineVars, toolVars, storeVars, workerVars,
                 swarmVars>>

CreateJob == TriggerJob(JobClusters, MaxJobs)

\* the dependency get_cluster_by_token: the cluster of the header, or Absent (401)
get_cluster_by_token(authorization) ==
  IF ~authorization.bearer THEN Absent
  ELSE IF \E c \in Clusters : TokenOf(c) = authorization.token
       THEN Some(CHOOSE c \in Clusters : TokenOf(c) = authorization.token)
       ELSE Absent

\* the handlers' check `not job or job.cluster_id != cluster.id` (negated)
JobVisibleMutant(job_id, cluster_id) == job_id \in DOMAIN jobs

JobVisible(job_id, cluster_id) ==
  job_id \in DOMAIN jobs /\ jobs[job_id].cluster_id = cluster_id

\* the HTTP status of a worker request at its first step; 200 when it goes on
AdmissionCode(authorization, job_id) ==
  IF get_cluster_by_token(authorization) = Absent THEN 401
  ELSE IF ~JobVisible(job_id, get_cluster_by_token(authorization)[1]) THEN 404
  ELSE 200

\* the bodies the worker posts to update_job_status: the bare status when it starts
\* a job, the status with result and logs when it finishes it
StatusPayloads ==
  {[status |-> "running", result |-> Absent, logs |-> <<>>],
   [status |-> "completed", result |-> Some("r"), logs |-> <<"s">>],
   [status |-> "failed", result |-> Some("r"), logs |-> <<"s">>]}

\* the text posted to append_job_logs
LogPayloads == {<<"a">>}

\* the first step of a worker request: rejected, or the row is loaded
Begin(op, authorization, job_id, bodies) ==
  /\ LET code == AdmissionCode(authorization, job_id) IN
       IF code # 200
       THEN /\ resp' = [authorization |-> authorization, job_id |-> job_id,
                        code |-> code]
            /\ UNCHANGED inflight
       ELSE /\ Cardinality(inflight) < MaxInflight
            /\ \E body \in bodies :
                 inflight' = inflight \cup
                   {[op |-> op, authorization |-> authorization, job_id |-> job_id,
                     loaded |-> jobs[job_id], status |-> body.status,
                     result |-> body.result, logs |-> body.logs]}
            /\ UNCHANGED resp
  /\ UNCHANGED <<jobs, clock, policyVars, engineVars, toolVars, storeVars, workerVars,
                 swarmVars>>

\* the handler update_job_status, up to its call of crud.update_job_status
BeginUpdateStatus ==
  \E authorization \in AuthPool, job_id \in 1..MaxJobs :
    Begin("status", authorization, job_id, StatusPayloads)

\* the handler append_job_logs, up to its call of crud.update_job_status: the
\* update it builds is JobStatusUpdate(status=job.status, logs=logs)
BeginAppendLogs ==
  \E authorization \in AuthPool, job_id \in 1..MaxJobs :
    Begin("logs", authorization, job_id,
          IF job_id \in DOMAIN jobs
          THEN {[status |-> jobs[job_id].status, result |-> Absent, logs |-> l] :
                  l \in LogPayloads}
          ELSE {})

\* crud.update_job_status on the loaded row: the attribute values it assigns
update_job_status(job, status, result, logs, now) ==
  [job EXCEPT
     !.status = status,
     !.result = IF result # Absent THEN result ELSE @,
     !.logs = IF logs # <<>> THEN @ \o logs ELSE @,
     !.started_at = IF status = "running" /\ @ = Absent THEN Some(now) ELSE @,
     !.completed_at = IF ~(status = "running" /\ job.started_at = Absent)
                         /\ status \in {"completed", "failed"}
                      THEN Some(now) ELSE @]

JobColumns ==
  {"cluster_id", "status", "result", "logs", "created_at", "started_at", "completed_at"}

\* db.commit(): the UPDATE sets the columns whose value changed since the load
Flush(current, loaded, assigned) ==
  [col \in JobColumns |->
     IF assigned[col] # loaded[col] THEN assigned[col] ELSE current[col]]

\* the second step of a worker request: assign, commit, answer
Commit ==
  /\ clock < MaxClock
  /\ clock' = clock + 1
  /\ \E r \in inflight :
       /\ jobs' = [jobs EXCEPT ![r.job_id] =
                     Flush(@, r.loaded,
                           update_job_status(r.loaded, r.status, r.result, r.logs, clock + 1))]
       /\ inflight' = inflight \ {r}
       /\ resp' = [authorization |-> r.authorization, job_id |-> r.job_id,
                   code |-> 200]
  /\ UNCHANGED <<policyVars, engineVars, toolVars, storeVars, workerVars, swarmVars>>

InitJobs == PolicyIdle /\ JobsIdle /\ EngineIdle /\ ToolsIdle /\ StoreIdle /\ WorkerIdle /\ SwarmIdle

NextJobs == CreateJob \/ BeginUpdateStatus \/ BeginAppendLogs \/ Commit

SpecJobs == InitJobs /\ [][NextJobs]_vars

\* the cluster whose token the header carries
TokenCluster(authorization) == CHOOSE c \in Clusters : TokenOf(c) = authorization.token

\* the header carries the Bearer token of the cluster that owns the job
Owner(authorization, job_id) ==
  /\ authorization.bearer
  /\ job_id \in DOMAIN jobs
  /\ authorization.token = TokenOf(jobs[job_id].cluster_id)

\* C1: an UpdateStatus or AppendLogs request whose token is that of another cluster,
\* or of no cluster, is rejected (401 or 404) and leaves the job unchanged: only
\* requests carrying the owning cluster's token are accepted, a rejection changes no
\* row, and a row changes only by the commit of an accepted owner's request.
C1_ForeignTokenRejected ==
  /\ [](/\ \A r \in inflight : Owner(r.authorization, r.job_id)
        /\ (resp.code # 0 /\ ~Owner(resp.authorization, resp.job_id))
             => resp.code \in {401, 404})
  /\ [][/\ (resp' # resp /\ resp'.code \in {401, 404}) => jobs' = jobs
        /\ \A j \in DOMAIN jobs :
             jobs'[j] # jobs[j] =>
               \E r \in inflight \ inflight' :
                  r.job_id = j /\ Owner(r.authorization, j)]_vars

\* a request with the token of cluster c2 on an existing job of c1 was answered 404
\* after the owner's worker had moved the job
C1_Witness ==
  /\ resp.code = 404
  /\ resp.authorization = [bearer |-> TRUE, token |-> "t2"]
  /\ resp.job_id \in DOMAIN jobs
  /\ jobs[resp.job_id].cluster_id = "c1"
  /\ jobs[resp.job_id].status = "running"

\* C2: once a job's status is completed or failed, no later call changes it.
C2_TerminalStatusImmutable ==
  [][\A j \in DOMAIN jobs :
       jobs[j].status \in {"completed", "failed"} => jobs'[j].status = jobs[j].status]_vars

----------------------------------------------------------------------------
(* SpecExecutor: the executor node called on every entry state of a pool,   *)
(* whatever the policy gate would have let through.                         *)

ApprovalStatuses == {"NONE", "PENDING", "APPROVED", "REJECTED"}

\* one call of _executor_node; the node keeps nothing from one call to the next
CallExecutor ==
  /\ pe.call = "none"
  /\ \E approval_status \in ApprovalStatuses, cluster_id \in {Absent, Some("c1")},
        plan \in EnginePlans \cup {NoneRec}, locked \in BOOLEAN, tools \in BOOLEAN,
        crud \in BOOLEAN :
       \E outcomes \in OutcomesOf(plan) :
         LET st == [InitialState(NoneRec, cluster_id) EXCEPT
                      !.remediation_plan = plan, !.approval_status = approval_status,
                      !.next = "executor", !.ooda_phase = "ACT"]
         IN pe' = [call |-> "executor", st |-> st, locked |-> locked, tools |-> tools,
                   outcomes |-> outcomes, crud |-> crud,
                   out |-> executor_node(st, locked, tools, outcomes, crud)]
  /\ UNCHANGED <<jobVars, engineVars, toolVars, storeVars, workerVars, swarmVars>>

InitExecutor == PolicyIdle /\ JobsIdle /\ EngineIdle /\ ToolsIdle /\ StoreIdle /\ WorkerIdle /\ SwarmIdle

NextExecutor == CallExecutor

SpecExecutor == InitExecutor /\ [][NextExecutor]_vars

PausedRuns == {i \in DOMAIN runs : runs[i].pc = "paused"}

\* C11: the state that Approve rehydrates from the session store equals the state
\* the paused run stopped on (with the approval recorded), and the run started on it
\* goes on as the unpaused run would have: executor, verifier, aggregate, with no
\* error.
C11_RoundTripEquivalent ==
  \A k \in DOMAIN approvals :
    (approvals[k].found = "WAITING_APPROVAL" /\ approvals[k].run # 0) =>
      LET r == runs[approvals[k].run] IN
        /\ r.pc # "error"
        /\ \A p \in PausedRuns :
             (Live(r) /\ \A n \in Nodes : r.visits[n] = 0) =>
               r.st = [runs[p].st EXCEPT !.approval_status = "APPROVED",
                                         !.next = "executor"]

\* C12: when the policy gate leaves a plan PENDING, the driver's run stops there:
\* the step stores the snapshot WAITING_APPROVAL with the engine state and appends
\* the pause line, and that run never goes on to aggregate, never stores COMPLETED
\* and never resolves the incident.  For local and for incident-backed runs.
C12_PauseStopsRun ==
  [][\A i \in DOMAIN runs :
       LET r == runs[i]
           gated == /\ r.kind \in {"local", "saas"}
                    /\ r.pc = "policy_gate"
                    /\ r.st.remediation_plan # NoneRec
                    /\ runs'[i].pc # "policy_gate"
                    /\ runs'[i].st.approval_status = "PENDING"
       IN /\ gated =>
               /\ runs'[i].pc = "paused"
               /\ snapshot' # NoneRec
               /\ snapshot'.status = "WAITING_APPROVAL"
               /\ snapshot'.state # Absent
               /\ slog' = slog \o <<"policy_gate", "PAUSED">>
          /\ (r.kind \in {"local", "saas"} /\ r.st.approval_status = "PENDING"
                /\ r.visits["policy_gate"] > 0 /\ runs'[i] # r) =>
               /\ runs'[i].pc \notin {"aggregate", "end", "done"}
               /\ incident' = incident
               /\ (snapshot' # NoneRec => snapshot'.status # "COMPLETED")]_vars


\* ---------------------------------------------------------------------------
\* The tool wrappers of mcp_tool_wrapper.py, for one tool T
\* ---------------------------------------------------------------------------

\* wrap_all_tools_with_retry(all_mcp_tools, max_attempts=3)
MaxAttempts == 3

CIRCUIT_BREAKER_THRESHOLD == 5

\* seconds
CIRCUIT_BREAKER_RECOVERY_TIME == 60

\* the values a wrapped call hands back: the tool's own result, or the text of
\* ToolError.to_agent_response() ("Error: Tool ... failed after ... attempts ...")
ToolResult == [kind |-> "result"]

AgentResponseText == [kind |-> "tool_error_text"]

\* a retry wrapper that lets the last exception through
safe_invoke_mutant(fails) ==
  IF fails < MaxAttempts
  THEN [raised |-> FALSE, value |-> ToolResult, invocations |-> fails + 1]
  ELSE [raised |-> TRUE, value |-> NoneRec, invocations |-> MaxAttempts]

\* safe_invoke / safe_ainvoke of wrap_tool_with_retry, where the tool fails on its
\* first `fails` attempts: tenacity stops at the first success or after max_attempts
\* and (reraise=True) raises the last exception, which `except Exception` turns into
\* the agent response text
safe_invoke(fails) ==
  IF fails < MaxAttempts
  THEN [raised |-> FALSE, value |-> ToolResult, invocations |-> fails + 1]
  ELSE [raised |-> FALSE, value |-> AgentResponseText, invocations |-> MaxAttempts]

\* check_circuit_breaker: TRUE when it raises "Circuit Breaker OPEN"
check_circuit_breaker(cb, now) ==
  /\ cb.is_open
  /\ cb.last_failure # Absent
  /\ now - cb.last_failure[1] < CIRCUIT_BREAKER_RECOVERY_TIME

record_success(cb) ==
  IF cb.failures > 0 THEN [cb EXCEPT !.failures = 0, !.is_open = FALSE] ELSE cb

record_failure(cb, now) ==
  LET current == cb.failures + 1 IN
    [cb EXCEPT !.failures = current, !.last_failure = Some(now),
               !.is_open = IF current >= CIRCUIT_BREAKER_THRESHOLD THEN TRUE ELSE @]

\* cb_invoke / cb_ainvoke of wrap_tool_with_circuit_breaker around safe_invoke
cb_invoke(cb, now, fails) ==
  IF check_circuit_breaker(cb, now)
  THEN [cb |-> cb, raised |-> TRUE, value |-> NoneRec, invocations |-> 0]
  ELSE LET inner == safe_invoke(fails) IN
         IF inner.raised
         THEN [cb |-> record_failure(cb, now), raised |-> TRUE, value |-> NoneRec,
               invocations |-> inner.invocations]
         ELSE [cb |-> record_success(cb), raised |-> FALSE, value |-> inner.value,
               invocations |-> inner.invocations]

\* log_audit_entry: audit_id is 0 for None, db_ok whether the database accepts the
\* write.  Yields the table and the id handed back.
log_audit_entry(log, status, audit_id, db_ok) ==
  IF ~db_ok THEN [log |-> log, id |-> audit_id]
  ELSE IF audit_id # 0
  THEN [log |-> IF audit_id \in DOMAIN log
                THEN [log EXCEPT ![audit_id].status = status] ELSE log,
        id |-> audit_id]
  ELSE [log |-> Append(log, [status |-> status, created |-> status]),
        id |-> Len(log) + 1]


\* audit_invoke / audit_ainvoke of wrap_tool_with_audit around cb_invoke: one call
\* of the fully wrapped tool at time t.now.  db1 and db2 tell whether the database
\* accepts the PENDING write and the final write.  `last` keeps what the call did:
\* the invocations of the underlying tool, the value or the exception handed to
\* the caller, the audit id, and the failure streak and time before the call.
audit_invoke(t, fails, db1, db2) ==
  LET pending == log_audit_entry(t.log, "PENDING", 0, db1)
      c == cb_invoke(t, t.now, fails)
      final == log_audit_entry(pending.log, IF c.raised THEN "FAILURE" ELSE "SUCCESS",
                               pending.id, db2)
      failed == fails >= MaxAttempts \/ c.invocations = 0
  IN [c.cb EXCEPT
        !.log = final.log,
        !.calls = @ + 1,
        !.dbFaults = @ + (IF db1 THEN 0 ELSE 1) + (IF db2 THEN 0 ELSE 1),
        !.streak = IF failed THEN @ + 1 ELSE 0,
        !.failed_at = IF failed /\ c.invocations > 0 THEN t.now ELSE @,
        !.last = [fails |-> fails, raised |-> c.raised, value |-> c.value,
                  invocations |-> c.invocations, audit_id |-> pending.id,
                  rows_before |-> Len(t.log), db1 |-> db1, db2 |-> db2,
                  streak |-> t.streak, elapsed |-> t.now - t.failed_at]]

\* the most calls of the wrapped tool
MaxToolCalls == 6

\* the most failed writes of the audit database
MaxDbFaults == 1

\* the latest time, in seconds, at which the clock still advances
MaxNow == 60

\* the clock advances in steps of half the recovery time
TickSeconds == CIRCUIT_BREAKER_RECOVERY_TIME \div 2

\* a caller (an agent of the swarm, the executor) invokes the wrapped tool
ToolCall ==
  /\ tw.calls < MaxToolCalls
  /\ \E fails \in 0..MaxAttempts, db1 \in BOOLEAN, db2 \in BOOLEAN :
       /\ tw.dbFaults + (IF db1 THEN 0 ELSE 1) + (IF db2 THEN 0 ELSE 1) <= MaxDbFaults
       /\ tw' = audit_invoke(tw, fails, db1, db2)
  /\ UNCHANGED <<policyVars, jobVars, engineVars, storeVars, workerVars, swarmVars>>

\* datetime.utcnow() advances
Tick ==
  /\ tw.now < MaxNow
  /\ tw' = [tw EXCEPT !.now = @ + TickSeconds]
  /\ UNCHANGED <<policyVars, jobVars, engineVars, storeVars, workerVars, swarmVars>>

InitTools == PolicyIdle /\ JobsIdle /\ EngineIdle /\ ToolsIdle /\ StoreIdle /\ WorkerIdle /\ SwarmIdle

NextTools == ToolCall \/ Tick

SpecTools == InitTools /\ [][NextTools]_vars

\* C13: after 5 consecutive failed calls of the tool, a call made less than 60 s
\* after the last failure gets an error without the underlying tool being invoked,
\* and a call made once the 60 s have elapsed is forwarded to the underlying tool.
C13_BreakerOpensAfterFiveFailures ==
  (tw.last # NoneRec /\ tw.last.streak >= CIRCUIT_BREAKER_THRESHOLD) =>
     IF tw.last.elapsed < CIRCUIT_BREAKER_RECOVERY_TIME
     THEN tw.last.invocations = 0 /\ (tw.last.raised \/ tw.last.value # ToolResult)
     ELSE tw.last.invocations > 0

\* C14: every call of the wrapped tool leaves exactly one row in the audit log,
\* created as PENDING before the tool is invoked and finalised under the same id as
\* SUCCESS or FAILURE; no call leaves no row, two rows, or a row that never was
\* PENDING.
C14_OneAuditRowPerCall ==
  /\ Len(tw.log) = tw.calls
  /\ \A id \in DOMAIN tw.log :
       /\ tw.log[id].created = "PENDING"
       /\ tw.log[id].status \in {"SUCCESS", "FAILURE"}
  /\ tw.last # NoneRec => tw.last.audit_id = Len(tw.log)

\* the same, as long as the audit database accepted every write
OneAuditRowWhenWritable ==
  (tw.dbFaults = 0) => C14_OneAuditRowPerCall

C15_AuditMatchesOutcome ==
  (/\ pe.call = "executor"
   /\ pe.crud /\ pe.st.cluster_id # Absent
   /\ pe.out.st.execution_status \in {"COMPLETED", "PARTIAL"}) =>
    \A i \in DOMAIN pe.outcomes :
      LET has(outcome) == \E a \in pe.out.audits : a.action = i /\ a.outcome = outcome
      IN /\ has("SUCCESS") <=> pe.outcomes[i] = "ok"
         /\ pe.outcomes[i] # "ok" => has("FAILED")

\* the same without the two cases the loop gets wrong: a tool that is not found and
\* a wrapped tool that hands back the tool-error response
AuditMatchesOutcomeElsewhere ==
  (/\ pe.call = "executor"
   /\ pe.crud /\ pe.st.cluster_id # Absent
   /\ pe.out.st.execution_status \in {"COMPLETED", "PARTIAL"}) =>
    \A i \in DOMAIN pe.outcomes :
      LET has(outcome) == \E a \in pe.out.audits : a.action = i /\ a.outcome = outcome
      IN pe.outcomes[i] \in {"ok", "raise"} =>
           /\ has("SUCCESS") <=> pe.outcomes[i] = "ok"
           /\ has("FAILED") <=> pe.outcomes[i] = "raise"

\* ---------------------------------------------------------------------------
\* RedisStateStore.append_log / get_logs on one key, command by command
\* ---------------------------------------------------------------------------

\* LPUSH instead of RPUSH
rpush_mutant(list, message) == <<message>> \o list

\* redis_client.rpush(redis_key, message)
rpush(list, message) == Append(list, message)

\* get_logs: LRANGE 0 -1, the empty list when Redis is not reachable
get_logs(l, available) == IF available THEN l.list ELSE <<>>

\* append_log call a, first command: RPUSH of its message
AppendLogPush ==
  /\ up
  /\ \E a \in DOMAIN ls.pc :
       /\ ls.pc[a] = "idle"
       /\ ls' = [ls EXCEPT !.list = rpush(@, a), !.pc[a] = "llen"]
  /\ UNCHANGED <<up, policyVars, jobVars, engineVars, toolVars, workerVars, swarmVars>>

\* second command: LLEN; the call goes on to EXPIRE only when it reads 1
AppendLogLen ==
  /\ up
  /\ \E a \in DOMAIN ls.pc :
       /\ ls.pc[a] = "llen"
       /\ ls' = [ls EXCEPT !.pc[a] = IF Len(ls.list) = 1 THEN "expire" ELSE "done"]
  /\ UNCHANGED <<up, policyVars, jobVars, engineVars, toolVars, workerVars, swarmVars>>

\* third command: EXPIRE with default_ttl, which acts on an existing key only
AppendLogExpire ==
  /\ up
  /\ \E a \in DOMAIN ls.pc :
       /\ ls.pc[a] = "expire"
       /\ ls' = [ls EXCEPT !.ttl = (ls.list # <<>>), !.pc[a] = "done"]
  /\ UNCHANGED <<up, policyVars, jobVars, engineVars, toolVars, workerVars, swarmVars>>

\* the TTL of the log key elapses: Redis deletes the key
ExpireLogs ==
  /\ ls.ttl
  /\ ls' = [ls EXCEPT !.list = <<>>, !.ttl = FALSE]
  /\ UNCHANGED <<up, policyVars, jobVars, engineVars, toolVars, workerVars, swarmVars>>

InitLog == PolicyIdle /\ JobsIdle /\ EngineIdle /\ ToolsIdle /\ StoreIdle /\ WorkerIdle /\ SwarmIdle

NextLog == AppendLogPush \/ AppendLogLen \/ AppendLogExpire \/ ExpireLogs

SpecLog == InitLog /\ [][NextLog]_vars

IsPrefix(s, t) == Len(s) <= Len(t) /\ SubSeq(t, 1, Len(s)) = s

\* C17: what get_logs returns is a prefix of what it returns at any later time
\* before the TTL elapses: under every interleaving of append_log calls a line,
\* once appended, is never removed, changed or moved.
C17_LogsArePrefixOfLater ==
  [][(ls.ttl /\ ~ls'.ttl) \/ IsPrefix(get_logs(ls, up), get_logs(ls', up'))]_vars

\* two append_log calls are under way at once, both between their RPUSH and their
\* LLEN, and a third one has started the list
C17_Witness ==
  /\ Len(get_logs(ls, up)) = 3
  /\ \E a, b \in DOMAIN ls.pc : a # b /\ ls.pc[a] = "llen" /\ ls.pc[b] = "llen"

\* no append_log call is between its RPUSH and the end of the call
NoAppendUnderWay == \A a \in DOMAIN ls.pc : ls.pc[a] \in {"idle", "done"}

\* C32: the first append_log on a session creates the list and sets the default
\* TTL on it, later appends do not extend it; under every interleaving of
\* concurrent append_log calls a non-empty log list never stays without a TTL.
C32_LogListHasTtl ==
  /\ (NoAppendUnderWay /\ ls.list # <<>>) => ls.ttl
  /\ \A a \in DOMAIN ls.pc : ls.pc[a] = "expire" => (ls.list = <<>> \/ Head(ls.list) = a)

\* a list of one line has its TTL once the calls under way are over
SingleLineListHasTtl == (NoAppendUnderWay /\ Len(ls.list) = 1) => ls.ttl

\* ---------------------------------------------------------------------------
\* The engine while Redis comes and goes
\* ---------------------------------------------------------------------------

\* Redis becomes unreachable before the alert arrives: ping fails, is_available
\* answers False
StoreDown ==
  /\ up
  /\ runs = <<>>
  /\ up' = FALSE
  /\ UNCHANGED <<ls, policyVars, jobVars, engineVars, toolVars, workerVars, swarmVars>>

\* Redis is reachable again
StoreUp ==
  /\ ~up
  /\ up' = TRUE
  /\ UNCHANGED <<ls, policyVars, jobVars, engineVars, toolVars, workerVars, swarmVars>>

\* POST /approve/{session_id} arrives while Redis is unreachable
ApproveDuringOutage == ~up /\ Approve

\* a node of some run, or the end of its driver
NodeStep ==
  \/ Prepare \/ InvestigationSwarm \/ Reflector \/ Planner \/ PolicyGate
  \/ Executor \/ Verifier \/ Aggregate \/ Finish

InitOutage == PolicyIdle /\ JobsIdle /\ EngineIdle /\ ToolsIdle /\ StoreIdle /\ WorkerIdle /\ SwarmIdle

NextOutage ==
  \/ StartSaas \/ Prepare \/ InvestigationSwarm \/ Reflector \/ Planner
  \/ PolicyGate \/ Executor \/ Verifier \/ Aggregate \/ Finish
  \/ SetClusterLock \/ ApproveDuringOutage \/ StoreDown \/ StoreUp

SpecOutage == InitOutage /\ [][NextOutage]_vars

EntersExecutor(i) == runs[i].pc = "executor" /\ runs'[i] # runs[i]

\* C38: from a successful SetClusterLock(c, true) until a successful
\* SetClusterLock(c, false), every entry into the executor for an investigation
\* of cluster c aborts without invoking a tool, also when the state store is
\* unreachable at the entry.
C38_LockHeldAbortsExecutor ==
  [][\A i \in DOMAIN runs :
       (/\ EntersExecutor(i)
        /\ runs[i].st.cluster_id # Absent
        /\ runs[i].st.cluster_id[1] \in locks) =>
         /\ runs'[i].tool_calls = runs[i].tool_calls
         /\ runs'[i].st.execution_status = "ABORTED"]_vars

\* with Redis reachable at the entry, the executor of a run that names a locked
\* cluster aborts without invoking a tool
LockSeenAbortsExecutor ==
  [][\A i \in DOMAIN runs :
       (/\ EntersExecutor(i)
        /\ up
        /\ runs[i].st.cluster_id # Absent
        /\ runs[i].st.cluster_id[1] \in locks) =>
         /\ runs'[i].tool_calls = runs[i].tool_calls
         /\ runs'[i].st.execution_status = "ABORTED"]_vars

\* an executor entered with a state that carries no cluster_id never aborts on a
\* lock, whatever the store would answer
NoClusterIdSkipsLockCheck ==
  (pe.call = "executor" /\ pe.st.cluster_id = Absent) =>
    pe.out.st.execution_status # "ABORTED"

\* ---------------------------------------------------------------------------
\* The queue of pending jobs: GET /clusters/jobs/pending
\* ---------------------------------------------------------------------------

\* the most jobs in the queue specification
MaxQueuedJobs == 3

\* a query that takes any pending job of the cluster
get_pending_job_for_cluster_mutant(cluster_id) ==
  {j \in DOMAIN jobs : jobs[j].cluster_id = cluster_id /\ jobs[j].status = "pending"}

\* crud.get_pending_job_for_cluster: the rows the query can return, those of the
\* cluster with status PENDING and the least created_at (any of them on a tie);
\* the empty set when it returns None
get_pending_job_for_cluster(cluster_id) ==
  LET pending == {j \in DOMAIN jobs :
                    jobs[j].cluster_id = cluster_id /\ jobs[j].status = "pending"}
  IN {j \in pending : \A k \in pending : jobs[j].created_at <= jobs[k].created_at}

\* the handler get_pending_job: 401 without a cluster token, else the job or null
\* (job 0)
GetPendingJob ==
  /\ \E authorization \in AuthPool :
       LET cluster == get_cluster_by_token(authorization) IN
         IF cluster = Absent
         THEN resp' = [op |-> "pending", authorization |-> authorization,
                       code |-> 401, job |-> 0]
         ELSE \E j \in IF get_pending_job_for_cluster(cluster[1]) = {} THEN {0}
                       ELSE get_pending_job_for_cluster(cluster[1]) :
                resp' = [op |-> "pending", authorization |-> authorization,
                         code |-> 200, job |-> j]
  /\ UNCHANGED <<jobs, inflight, clock, policyVars, engineVars, toolVars, storeVars, workerVars,
                 swarmVars>>

\* the dashboard triggers jobs for any cluster
TriggerQueuedJob == TriggerJob(Clusters, MaxQueuedJobs)

\* an update_job_status request of the worker of the job's cluster, from its load
\* to its commit, with no other request in between
UpdateStatusSerial ==
  /\ clock < MaxClock
  /\ clock' = clock + 1
  /\ \E job_id \in DOMAIN jobs, body \in StatusPayloads :
       jobs' = [jobs EXCEPT ![job_id] =
                  update_job_status(@, body.status, body.result, body.logs, clock + 1)]
  /\ UNCHANGED <<inflight, resp, policyVars, engineVars, toolVars, storeVars, workerVars,
                 swarmVars>>

InitQueue == PolicyIdle /\ JobsIdle /\ EngineIdle /\ ToolsIdle /\ StoreIdle /\ WorkerIdle /\ SwarmIdle

NextQueue == TriggerQueuedJob \/ UpdateStatusSerial \/ GetPendingJob

SpecQueue == InitQueue /\ [][NextQueue]_vars

\* C19: GET /jobs/pending with the token of cluster C answers with a pending job of
\* C that has the least creation time among C's pending jobs, or with none when C
\* has no pending job; never with a job of another cluster or a job that is
\* running, completed or failed, and never with a job created later than another
\* pending job of C.
C19_OldestPendingOfCluster ==
  [][(resp' # resp /\ resp'.code = 200 /\ "op" \in DOMAIN resp' /\ resp'.op = "pending") =>
       LET c == TokenCluster(resp'.authorization)
           mine == {j \in DOMAIN jobs :
                      jobs[j].cluster_id = c /\ jobs[j].status = "pending"}
       IN IF resp'.job = 0 THEN mine = {}
          ELSE /\ resp'.job \in mine
               /\ \A k \in mine : jobs[k].created_at >= jobs[resp'.job].created_at]_vars

\* cluster c1 was handed its second job, the older of its two pending jobs, while
\* its first job, created before both, is running
C19_Witness ==
  /\ "op" \in DOMAIN resp /\ resp.op = "pending" /\ resp.code = 200
  /\ resp.authorization.token = TokenOf("c1")
  /\ resp.job = 2
  /\ Len(jobs) = 3
  /\ \A j \in 1..3 : jobs[j].cluster_id = "c1"
  /\ jobs[1].status = "running"
  /\ jobs[2].status = "pending" /\ jobs[3].status = "pending"
  /\ jobs[1].created_at < jobs[2].created_at
  /\ jobs[2].created_at < jobs[3].created_at

----------------------------------------------------------------------------
(* SpecWorker: the edge worker of cluster c1 (job_poller.py).  polling_loop *)
(* claims a pending job and runs execute_job on it, one job at a time; the  *)
(* dispatcher serves each post of the worker before the worker goes on.  A  *)
(* post that ends in httpx.RequestError does not reach the dispatcher:      *)
(* JobPollerClient.update_job_status returns False and execute_job goes on. *)

\* the most executions the worker starts
MaxExecutions == 2

\* the most events the graph streams in one execution
MaxEvents == 3

\* len(accumulated_logs) from which every streamed step posts the log tail
LogTailSize == 5

WorkerCluster == "c1"

\* JobPollerClient.headers
WorkerAuth == [bearer |-> TRUE, token |-> TokenOf(WorkerCluster)]

JobTypes == {"configure_cluster", "investigation"}

TerminalStatus == {"completed", "failed"}

\* log_callback: one more line in accumulated_logs, whose length is n
log_callback(n) == n + 1

\* accumulated_logs when n lines were recorded: line k is the k-th recorded
accumulated_logs(n) == [k \in 1..n |-> k]

\* lines[-5:]
LogTail(lines) ==
  IF Len(lines) <= LogTailSize THEN lines
  ELSE SubSeq(lines, Len(lines) - LogTailSize + 1, Len(lines))

\* JobPollerClient.update_job_status and the dispatcher's handler behind it: the
\* post is sent, the handler admits it and commits the update, or the transport
\* fails and nothing changes; w is the worker's state after the post
Post(w, status, result, logs, delivered) ==
  LET served == delivered /\ AdmissionCode(WorkerAuth, w.job) = 200
      before == jobs[w.job].status
  IN /\ wk' = [w EXCEPT
                 !.posts = Append(@, [status |-> status, delivered |-> served]),
                 !.moves[w.job] =
                    IF served /\ before \notin TerminalStatus /\ status \in TerminalStatus
                    THEN @ + 1 ELSE @]
     /\ IF served
        THEN /\ jobs' = [jobs EXCEPT ![w.job] =
                           update_job_status(@, status, result, logs, clock + 1)]
             /\ clock' = clock + 1
        ELSE UNCHANGED <<jobs, clock>>

\* the dashboard triggers a job for the worker's cluster
TriggerWorkerJob == TriggerJob({WorkerCluster}, MaxWorkerJobs)

\* polling_loop: get_pending_job returned a job, execute_job starts on it
WorkerPoll ==
  /\ wk.pc = "poll"
  /\ wk.execs < MaxExecutions
  /\ \E j \in get_pending_job_for_cluster(WorkerCluster), t \in JobTypes :
       wk' = [wk EXCEPT !.pc = "post_running", !.job = j, !.job_type = t,
                        !.logs = 0, !.events = 0, !.posts = <<>>,
                        !.raised = FALSE, !.execs = @ + 1]
  /\ UNCHANGED <<jobs, inflight, clock, resp, policyVars, engineVars, toolVars, storeVars,
                 swarmVars>>

\* execute_job: the first post, status running
PostRunning ==
  /\ wk.pc = "post_running"
  /\ \E delivered \in BOOLEAN :
       Post([wk EXCEPT !.pc = "body"], "running", Absent, <<>>, delivered)
  /\ UNCHANGED <<inflight, resp, policyVars, engineVars, toolVars, storeVars, swarmVars>>

\* execute_job, job type configure_cluster: no kubeconfig, the tool is missing or
\* its call raises (the exception reaches the outer handler), or the tool returns
ConfigureCluster ==
  /\ wk.pc = "body" /\ wk.job_type = "configure_cluster"
  /\ \E outcome \in {"no_kubeconfig", "tool_missing", "tool_raised", "ok"} :
       wk' = [wk EXCEPT
                !.logs = IF outcome = "no_kubeconfig" THEN 1 ELSE 4,
                !.pc = IF outcome = "ok" THEN "post_completed" ELSE "post_failed",
                !.raised = outcome # "ok"]
  /\ UNCHANGED <<jobs, inflight, clock, resp, policyVars, engineVars, toolVars, storeVars,
                 swarmVars>>

\* execute_job, other job types, up to graph.astream: the graph is there, or
\* initialize_agent builds it, or it fails and there is no graph (RuntimeError)
StartInvestigation ==
  /\ wk.pc = "body" /\ wk.job_type = "investigation"
  /\ \E outcome \in {"ready", "initialized", "no_graph"} :
       wk' = [wk EXCEPT
                !.logs = IF outcome = "ready" THEN 2 ELSE IF outcome = "initialized" THEN 3 ELSE 2,
                !.pc = IF outcome = "no_graph" THEN "post_failed" ELSE "stream",
                !.raised = outcome = "no_graph"]
  /\ UNCHANGED <<jobs, inflight, clock, resp, policyVars, engineVars, toolVars, storeVars,
                 swarmVars>>

\* one event of graph.astream: the step is logged, and from LogTailSize lines on
\* the tail is posted with status running
StreamEvent ==
  /\ wk.pc = "stream"
  /\ wk.events < MaxEvents
  /\ LET w == [wk EXCEPT !.events = @ + 1, !.logs = log_callback(@)] IN
       IF w.logs >= LogTailSize
       THEN \E delivered \in BOOLEAN :
              Post(w, "running", Absent, LogTail(accumulated_logs(w.logs)), delivered)
       ELSE wk' = w /\ UNCHANGED <<jobs, clock>>
  /\ UNCHANGED <<inflight, resp, policyVars, engineVars, toolVars, storeVars, swarmVars>>

\* graph.astream raises: the exception reaches the outer handler
StreamRaises ==
  /\ wk.pc = "stream"
  /\ wk' = [wk EXCEPT !.pc = "post_failed", !.raised = TRUE]
  /\ UNCHANGED <<jobs, inflight, clock, resp, policyVars, engineVars, toolVars, storeVars,
                 swarmVars>>

\* graph.astream is exhausted: the result is built
StreamEnds ==
  /\ wk.pc = "stream"
  /\ wk' = [wk EXCEPT !.pc = "post_completed", !.logs = log_callback(@)]
  /\ UNCHANGED <<jobs, inflight, clock, resp, policyVars, engineVars, toolVars, storeVars,
                 swarmVars>>

\* execute_job: the post of status completed, then it returns
PostCompleted ==
  /\ wk.pc = "post_completed"
  /\ \E delivered \in BOOLEAN :
       Post([wk EXCEPT !.pc = "poll"], "completed", Some("r"),
            accumulated_logs(wk.logs), delivered)
  /\ UNCHANGED <<inflight, resp, policyVars, engineVars, toolVars, storeVars, swarmVars>>

\* execute_job, `except Exception`: the post of status failed, then it returns
PostFailed ==
  /\ wk.pc = "post_failed"
  /\ \E delivered \in BOOLEAN :
       Post([wk EXCEPT !.pc = "poll", !.logs = log_callback(@)],
            "failed", Some("r"), accumulated_logs(log_callback(wk.logs)), delivered)
  /\ UNCHANGED <<inflight, resp, policyVars, engineVars, toolVars, storeVars, swarmVars>>

InitWorker == PolicyIdle /\ JobsIdle /\ EngineIdle /\ ToolsIdle /\ StoreIdle /\ WorkerIdle /\ SwarmIdle

NextWorker ==
  \/ TriggerWorkerJob
  \/ WorkerPoll
  \/ PostRunning
  \/ ConfigureCluster
  \/ StartInvestigation
  \/ StreamEvent
  \/ StreamRaises
  \/ StreamEnds
  \/ PostCompleted
  \/ PostFailed

SpecWorker == InitWorker /\ [][NextWorker]_vars

\* execute_job has returned for the job wk.job
JobExecuted == wk.pc = "poll" /\ wk.job # 0

\* the positions of the terminal statuses among the posts of the execution
TerminalPosts == {i \in DOMAIN wk.posts : wk.posts[i].status \in TerminalStatus}

\* the posts of an execution: running first, nothing after a terminal status, and
\* once execute_job has returned exactly one terminal status, failed if and only
\* if the execution raised
PostsRunningThenOneTerminal ==
  /\ wk.posts # <<>> => wk.posts[1].status = "running"
  /\ \A i \in TerminalPosts : i = Len(wk.posts)
  /\ JobExecuted =>
       /\ Cardinality(TerminalPosts) = 1
       /\ wk.posts[Len(wk.posts)].status = IF wk.raised THEN "failed" ELSE "completed"

\* C20: for every job the worker executes, it posts running before any other
\* status and then exactly one terminal status, completed on normal termination
\* and failed when the execution raised; once the execution has returned, the job
\* has made exactly one transition from a non-terminal to a terminal status.
C20_RunningThenOneTerminalMove ==
  /\ PostsRunningThenOneTerminal
  /\ JobExecuted => wk.moves[wk.job] = 1

\* when the terminal post reached the dispatcher, the job made its one transition
OneTerminalMoveWhenDelivered ==
  (JobExecuted /\ wk.posts[Len(wk.posts)].delivered) => wk.moves[wk.job] = 1

\* the jobs of a cluster whose status is running
RunningJobs(cluster_id) ==
  {j \in DOMAIN jobs : jobs[j].cluster_id = cluster_id /\ jobs[j].status = "running"}

\* C21: with one worker per cluster, at most one job of a cluster has status
\* running in every reachable state, and the worker starts executing a job only
\* when the previous execute_job has returned.
C21_OneRunningJobPerCluster ==
  /\ [](\A c \in Clusters : Cardinality(RunningJobs(c)) <= 1)
  /\ [][wk'.execs # wk.execs => wk.pc = "poll" /\ wk'.pc = "post_running"]_vars

\* the worker runs one execute_job at a time
WorkerRunsOneJobAtATime ==
  [][wk'.execs # wk.execs => wk.pc = "poll" /\ wk'.pc = "post_running"]_vars

\* a job that is running while the worker is not executing it is a job whose
\* terminal status never reached the dispatcher
StaleRunningOnlyAfterLostPost ==
  \A j \in DOMAIN jobs :
    (jobs[j].status = "running" /\ (j # wk.job \/ wk.pc = "poll")) => wk.moves[j] = 0

\* every post of the execution reached the dispatcher
EveryPostDelivered == \A i \in DOMAIN wk.posts : wk.posts[i].delivered

\* C39: after execute_job has finished with every status post delivered, the log
\* blob of the job holds each narration line the worker recorded exactly once,
\* in the order recorded.
C39_BlobIsTheNarration ==
  (JobExecuted /\ EveryPostDelivered) =>
    jobs[wk.job].logs = accumulated_logs(wk.logs)

\* the blob ends with the whole narration whenever the terminal post was
\* delivered, and is the narration when no tail was posted before it
BlobEndsWithNarration ==
  (JobExecuted /\ wk.posts[Len(wk.posts)].delivered) =>
    LET blob == jobs[wk.job].logs
        lines == accumulated_logs(wk.logs) IN
      /\ Len(blob) >= Len(lines)
      /\ SubSeq(blob, Len(blob) - Len(lines) + 1, Len(blob)) = lines
      /\ (EveryPostDelivered /\ Len(wk.posts) = 2) => blob = lines

\* C22: a job whose status is completed or failed has started_at and completed_at
\* set, with started_at <= completed_at, and started_at, once set, is not changed
\* by a later update.
C22_TerminalJobIsStamped ==
  /\ [](\A j \in DOMAIN jobs :
          jobs[j].status \in TerminalStatus =>
            /\ jobs[j].started_at # Absent
            /\ jobs[j].completed_at # Absent
            /\ jobs[j].started_at[1] <= jobs[j].completed_at[1])
  /\ [][\A j \in DOMAIN jobs :
          jobs[j].started_at # Absent => jobs'[j].started_at = jobs[j].started_at]_vars

\* started_at is written once, and a terminal job has completed_at set, not
\* earlier than started_at when that is set
StartedOnceAndCompletedLater ==
  /\ [](\A j \in DOMAIN jobs :
          jobs[j].status \in TerminalStatus =>
            /\ jobs[j].completed_at # Absent
            /\ jobs[j].started_at # Absent =>
                 jobs[j].started_at[1] <= jobs[j].completed_at[1])
  /\ [][\A j \in DOMAIN jobs :
          jobs[j].started_at # Absent => jobs'[j].started_at = jobs[j].started_at]_vars

\* the append_job_logs requests that the step commits
CommittedAppends == {r \in inflight \ inflight' : r.op = "logs"}

\* the step leaves the columns cols of job j as they are
SameColumns(j, cols) == \A col \in cols : jobs'[j][col] = jobs[j][col]

\* C23: append_job_logs changes only the job's logs, by appending the text: status,
\* result, started_at and completed_at are the same after the call as before, for
\* a job in any status, completed and failed included.
C23_AppendLogsChangesLogsOnly ==
  [][\A r \in CommittedAppends :
       /\ SameColumns(r.job_id, {"status", "result", "started_at", "completed_at"})
       /\ jobs'[r.job_id].logs = jobs[r.job_id].logs \o r.logs]_vars

\* append_job_logs appends the text and keeps status, result and started_at; it
\* keeps completed_at of a job that is pending or running
AppendLogsKeepsAllButCompletedAt ==
  [][\A r \in CommittedAppends :
       /\ SameColumns(r.job_id, {"status", "result", "started_at"})
       /\ jobs[r.job_id].status \notin TerminalStatus =>
            SameColumns(r.job_id, {"completed_at"})
       /\ jobs'[r.job_id].logs = jobs[r.job_id].logs \o r.logs]_vars

\* the runs whose driver returns normally in the step
FinishingRuns == {i \in DOMAIN runs : runs[i].pc = "end" /\ runs'[i].pc = "done"}

\* C24: the incident becomes RESOLVED only by a run whose verification result is
\* RESOLVED; a run that ends without executing the plan (pause at the policy gate,
\* lock abort, missing approval) or whose verification is FAILED leaves the
\* incident unresolved.
C24_ResolvedOnlyWhenVerified ==
  [][(incident' = "RESOLVED" /\ incident # "RESOLVED") =>
       \E i \in FinishingRuns :
         /\ runs[i].st.execution_status \in {"COMPLETED", "PARTIAL"}
         /\ runs[i].st.verification = "RESOLVED"]_vars

\* the incident becomes RESOLVED only when the incident-backed driver has streamed
\* the graph to its end
ResolvedOnlyAtEndOfRun ==
  [][(incident' = "RESOLVED" /\ incident # "RESOLVED") =>
       \E i \in FinishingRuns : runs[i].kind = "saas"]_vars

----------------------------------------------------------------------------
(* SpecIncident: the incident-backed driver run_graph_background_saas with  *)
(* its own steps: the UPDATE to INVESTIGATING, initialize_agent inside the  *)
(* try block, the graph, and the UPDATE at the end or in the except branch. *)
(* The task is scheduled until it returns (weak fairness of its steps).     *)

\* an except branch that logs and leaves the incident as it is
saas_failure_update_mutant(status, text) == [status |-> status, summary |-> text]

\* the UPDATE of the except branch of run_graph_background_saas
saas_failure_update(status, text) ==
  [status |-> "OPEN", summary |-> "Investigation Attempt Failed"]

\* webhook_alert starts the task, which first sets the incident to INVESTIGATING
BeginSaas ==
  /\ runs = <<>>
  /\ \E c \in AgentClusters :
       runs' = <<[NewRun("saas", InitialState(NoneRec, Some(c)))
                    EXCEPT !.pc = "initialize_agent"]>>
  /\ incident' = "INVESTIGATING"
  /\ UNCHANGED <<snapshot, slog, locks, audit, summary, approvals, lockOps,
                 policyVars, jobVars, toolVars, storeVars, workerVars, swarmVars>>

\* initialize_agent returns, and the driver stores the first snapshot and log line
\* before it streams the graph; or it raises and the except branch runs
InitializeAgent ==
  /\ \E i \in DOMAIN runs, ok \in BOOLEAN :
       /\ AtNode(i, "initialize_agent")
       /\ IF ok
          THEN /\ runs' = [runs EXCEPT ![i].pc = "prepare"]
               /\ snapshot' = StoreSet(snapshot, [status |-> "RUNNING", state |-> Absent])
               /\ slog' = StoreAppendLog(slog, <<"started">>)
               /\ UNCHANGED <<incident, summary>>
          ELSE /\ runs' = [runs EXCEPT ![i] = Returned(runs[i].kind, "error")]
               /\ slog' = StoreAppendLog(slog, <<"Error">>)
               /\ incident' = saas_failure_update(incident, summary).status
               /\ summary' = saas_failure_update(incident, summary).summary
               /\ UNCHANGED snapshot
  /\ UNCHANGED <<locks, audit, approvals, lockOps, policyVars, jobVars, toolVars,
                 storeVars, workerVars, swarmVars>>

\* the steps of the task
TaskStep == InitializeAgent \/ NodeStep

InitIncident ==
  PolicyIdle /\ JobsIdle /\ EngineIdle /\ ToolsIdle /\ StoreIdle /\ WorkerIdle /\ SwarmIdle

NextIncident ==
  \/ BeginSaas \/ InitializeAgent \/ Prepare \/ InvestigationSwarm \/ Reflector
  \/ Planner \/ PolicyGate \/ Executor \/ Verifier \/ Aggregate \/ Finish

SpecIncident == InitIncident /\ [][NextIncident]_vars /\ WF_vars(TaskStep)

\* the runs whose driver takes its except branch in the step
RaisingRuns == {i \in DOMAIN runs : runs[i].pc # "error" /\ runs'[i].pc = "error"}

\* C25: every investigation task started for an incident eventually moves the
\* incident out of INVESTIGATING: to RESOLVED with the final response as summary
\* when the run finishes, to OPEN with a summary "Investigation Attempt Failed: ..."
\* when the run raises; the incident is INVESTIGATING only while the task runs.
C25_IncidentLeavesInvestigating ==
  /\ (incident = "INVESTIGATING") ~> (incident \in {"RESOLVED", "OPEN"})
  /\ [][(incident = "INVESTIGATING" /\ incident' # incident) =>
          \/ /\ FinishingRuns # {}
             /\ incident' = "RESOLVED" /\ summary' = "final_response"
          \/ /\ RaisingRuns # {}
             /\ incident' = "OPEN" /\ summary' = "Investigation Attempt Failed"]_vars
  /\ [](incident = "INVESTIGATING" => \E i \in DOMAIN runs : Live(runs[i]))

\* the session's snapshot is stored with status RUNNING
SnapshotRunning == snapshot # NoneRec /\ snapshot.status = "RUNNING"

\* the investigation tasks that have returned
FinishedTasks ==
  {i \in DOMAIN runs : runs[i].kind \in {"local", "saas"} /\ ~Live(runs[i])}

\* C40: every investigation task eventually moves the snapshot of its session out
\* of RUNNING, to WAITING_APPROVAL, COMPLETED or ERROR (Redis reachable), and no
\* task that has finished leaves the snapshot in RUNNING.
C40_TaskLeavesRunning ==
  /\ SnapshotRunning ~>
       (snapshot # NoneRec /\
          snapshot.status \in {"WAITING_APPROVAL", "COMPLETED", "ERROR"})
  /\ [](FinishedTasks # {} => ~SnapshotRunning)

\* a local task that has returned or paused has left the snapshot COMPLETED, ERROR
\* or WAITING_APPROVAL, unless the snapshot expired or an approval removed it
LocalTaskLeavesRunning ==
  \A i \in DOMAIN runs :
    (runs[i].kind = "local" /\ runs[i].pc \in {"done", "error", "paused"}) =>
      ~SnapshotRunning

\* initialize_agent raised: the task has returned and the incident is open again
C25_Witness ==
  /\ runs # <<>> /\ runs[1].kind = "saas" /\ runs[1].pc = "error"
  /\ incident = "OPEN" /\ summary = "Investigation Attempt Failed"
  /\ slog = <<"Error">>

----------------------------------------------------------------------------
(* SpecTenancy: the cluster-scoped endpoints of the dashboard (clusters.py,  *)
(* jobs.py, incidents.py), called by users of two organisations on the       *)
(* clusters of both.  resp is the last request answered, with its answer.    *)

Orgs == {"o1", "o2"}

\* Cluster.org_id
OrgOf(c) == IF c = "c1" THEN "o1" ELSE "o2"

\* the most jobs the users trigger
MaxTenantJobs == 2

\* the handlers' check `not cluster or cluster.org_id != user.org_id` (negated)
ClusterVisible(org, c) == c \in Clusters /\ OrgOf(c) = org

\* what the endpoints read of a cluster
JobsOf(c) == {j \in DOMAIN jobs : jobs[j].cluster_id = c}
AuditOf(c) == {e \in audit : e.cluster_id = c}
IncidentsOf(c) == IF c \in AgentClusters /\ incident # "NONE" THEN {incident} ELSE {}

\* the answer of a user request: HTTPException(404) carries no body
UserAnswer(op, org, c, arg, code, body) ==
  [op |-> op, org |-> org, cluster_id |-> c, arg |-> arg, code |-> code,
   body |-> IF code = 200 THEN Some(body) ELSE Absent]

\* an endpoint that starts with the ownership check and then only reads
CheckedRead(op, org, c, body) ==
  /\ resp' = UserAnswer(op, org, c, Absent,
                        IF ClusterVisible(org, c) THEN 200 ELSE 404, body)
  /\ UNCHANGED <<jobs, inflight, clock, policyVars, engineVars, toolVars, storeVars,
                 workerVars, swarmVars>>

\* GET /clusters/{cluster_id}/health
GetClusterHealth ==
  \E org \in Orgs, c \in Clusters : CheckedRead("health", org, c, "online")

\* GET /clusters/{cluster_id}/jobs
ListJobs ==
  \E org \in Orgs, c \in Clusters : CheckedRead("list_jobs", org, c, JobsOf(c))

\* GET /clusters/{cluster_id}/incidents
ListIncidents ==
  \E org \in Orgs, c \in Clusters : CheckedRead("list_incidents", org, c, IncidentsOf(c))

\* POST /clusters/{cluster_id}/jobs/trigger
UserTriggerJob ==
  \E org \in Orgs, c \in Clusters :
    IF ClusterVisible(org, c)
    THEN /\ Len(jobs) < MaxTenantJobs
         /\ jobs' = Append(jobs, NewJob(c, Len(jobs)))
         /\ resp' = UserAnswer("trigger_job", org, c, Absent, 200, Len(jobs) + 1)
         /\ UNCHANGED <<inflight, clock, policyVars, engineVars, toolVars, storeVars,
                        workerVars, swarmVars>>
    ELSE /\ resp' = UserAnswer("trigger_job", org, c, Absent, 404, 0)
         /\ UNCHANGED <<jobs, inflight, clock, policyVars, engineVars, toolVars,
                        storeVars, workerVars, swarmVars>>

\* POST /clusters/{cluster_id}/trigger: the incident is created (open) and the
\* investigation task is scheduled
UserTriggerIncident ==
  \E org \in Orgs, c \in Clusters :
    IF ClusterVisible(org, c) /\ c \in AgentClusters
    THEN /\ runs = <<>>
         /\ runs' = <<[NewRun("saas", InitialState(NoneRec, Some(c)))
                         EXCEPT !.pc = "scheduled"]>>
         /\ incident' = "OPEN"
         /\ resp' = UserAnswer("trigger_incident", org, c, Absent, 200, "OPEN")
         /\ UNCHANGED <<snapshot, slog, locks, audit, summary, approvals, lockOps,
                        jobs, inflight, clock, policyVars, toolVars, storeVars,
                        workerVars, swarmVars>>
    ELSE /\ ~ClusterVisible(org, c)
         /\ resp' = UserAnswer("trigger_incident", org, c, Absent, 404, 0)
         /\ UNCHANGED <<jobs, inflight, clock, policyVars, engineVars, toolVars,
                        storeVars, workerVars, swarmVars>>

\* GET /clusters/{cluster_id}/lock: no ownership check
GetClusterLock ==
  /\ \E org \in Orgs, c \in Clusters :
       resp' = UserAnswer("get_lock", org, c, Absent, 200, is_cluster_locked(c))
  /\ UNCHANGED <<jobs, inflight, clock, policyVars, engineVars, toolVars, storeVars,
                 workerVars, swarmVars>>

\* POST /clusters/{cluster_id}/lock: no ownership check; 500 when the store did
\* not take the write, else the audit event
UserSetClusterLock ==
  /\ lockOps < MaxLockOps
  /\ lockOps' = lockOps + 1
  /\ \E org \in Orgs, c \in Clusters, locked \in BOOLEAN :
       /\ locks' = set_cluster_lock(c, locked)
       /\ audit' = IF up
                   THEN audit \cup {AuditRow(0, c, "EMERGENCY_LOCK_TOGGLE", 0, "SUCCESS")}
                   ELSE audit
       /\ resp' = IF up THEN UserAnswer("set_lock", org, c, Some(locked), 200, locked)
                  ELSE UserAnswer("set_lock", org, c, Some(locked), 500, locked)
  /\ UNCHANGED <<runs, snapshot, slog, incident, summary, approvals, jobs, inflight,
                 clock, policyVars, toolVars, storeVars, workerVars, swarmVars>>

\* GET /clusters/{cluster_id}/audit: no ownership check
GetClusterAuditLogs ==
  /\ \E org \in Orgs, c \in Clusters :
       resp' = UserAnswer("audit", org, c, Absent, 200, AuditOf(c))
  /\ UNCHANGED <<jobs, inflight, clock, policyVars, engineVars, toolVars, storeVars,
                 workerVars, swarmVars>>

InitTenancy ==
  PolicyIdle /\ JobsIdle /\ EngineIdle /\ ToolsIdle /\ StoreIdle /\ WorkerIdle /\ SwarmIdle

NextTenancy ==
  \/ GetClusterHealth \/ ListJobs \/ ListIncidents \/ UserTriggerJob
  \/ UserTriggerIncident \/ GetClusterLock \/ UserSetClusterLock \/ GetClusterAuditLogs

SpecTenancy == InitTenancy /\ [][NextTenancy]_vars

\* the step answers a user request on a cluster of another organisation
ForeignRequest ==
  /\ resp' # resp
  /\ "org" \in DOMAIN resp'
  /\ OrgOf(resp'.cluster_id) # resp'.org

\* the step leaves everything stored about cluster c as it is
ClusterUntouched(c) ==
  /\ (c \in locks') = (c \in locks)
  /\ {e \in audit' : e.cluster_id = c} = AuditOf(c)
  /\ {j \in DOMAIN jobs' : jobs'[j].cluster_id = c} = JobsOf(c)
  /\ (c \in AgentClusters => incident' = incident /\ runs' = runs)

\* C26: every user request on a cluster of another organisation (trigger job, list
\* jobs, list incidents, trigger incident, health, get lock, set lock, audit trail)
\* is answered 404 without a body and changes nothing of that cluster.
C26_ForeignClusterNotFound ==
  [][ForeignRequest =>
       /\ resp'.code = 404
       /\ resp'.body = Absent
       /\ ClusterUntouched(resp'.cluster_id)]_vars

\* the same for the endpoints that make the ownership check
CheckedEndpointsIsolate ==
  [][(ForeignRequest /\ resp'.op \notin {"get_lock", "set_lock", "audit"}) =>
       /\ resp'.code = 404
       /\ resp'.body = Absent
       /\ ClusterUntouched(resp'.cluster_id)]_vars

\* the runs whose executor aborted (cluster locked, or plan not approved)
AbortedRuns == {i \in DOMAIN runs : runs[i].st.execution_status = "ABORTED"}

\* C27: when the executor aborts, the run goes directly to aggregate: the verifier
\* is not visited and nothing is measured in that run.
C27_AbortSkipsVerifier ==
  \A i \in AbortedRuns :
    /\ runs[i].pc # "verifier"
    /\ runs[i].visits["verifier"] = 0
    /\ runs[i].st.verification = "NONE"

\* a run whose executor aborted and that has no alert context measures nothing:
\* the verifier it goes through returns before it queries a metric
AbortedRunWithoutAlertMeasuresNothing ==
  \A i \in AbortedRuns :
    runs[i].st.alert_context = NoneRec => runs[i].st.verification = "NONE"

\* ---------------------------------------------------------------------------
\* The circuit breaker alone, around a tool that raises, with calls in flight
\* ---------------------------------------------------------------------------

\* the most calls of cb_ainvoke
MaxBreakerCalls == 7

\* the most calls awaiting original_ainvoke at the same time (the agents of the
\* swarm share the tool objects and run under one event loop)
MaxFlying == 2

\* the calls awaiting original_ainvoke
Flying == tw.flying.plain + tw.flying.probe

\* cb_ainvoke up to its first await: check_circuit_breaker raises, or the call goes
\* on to original_ainvoke.  A call let through while the breaker is open is a
\* probe.
CbEnter ==
  /\ tw.calls < MaxBreakerCalls
  /\ Flying < MaxFlying
  /\ tw' = IF check_circuit_breaker(tw, tw.now)
           THEN [tw EXCEPT !.calls = @ + 1,
                           !.last = [op |-> "rejected", probe |-> FALSE, ok |-> FALSE]]
           ELSE [tw EXCEPT !.calls = @ + 1,
                           !.flying = IF tw.is_open
                                      THEN [@ EXCEPT !.probe = @ + 1]
                                      ELSE [@ EXCEPT !.plain = @ + 1],
                           !.last = [op |-> "admitted", probe |-> tw.is_open,
                                     ok |-> FALSE]]
  /\ UNCHANGED <<policyVars, jobVars, engineVars, storeVars, workerVars, swarmVars>>

\* cb_ainvoke after the await: original_ainvoke returned (record_success) or raised
\* (record_failure, and the exception goes on to the caller).  streak and failed_at
\* keep the run of failed returns and the time of the last one.
CbReturn ==
  /\ \E probe \in BOOLEAN, ok \in BOOLEAN :
       /\ IF probe THEN tw.flying.probe > 0 ELSE tw.flying.plain > 0
       /\ tw' = [(IF ok THEN record_success(tw) ELSE record_failure(tw, tw.now)) EXCEPT
                   !.flying = IF probe THEN [@ EXCEPT !.probe = @ - 1]
                                       ELSE [@ EXCEPT !.plain = @ - 1],
                   !.streak = IF ok THEN 0 ELSE @ + 1,
                   !.failed_at = IF ok THEN @ ELSE tw.now,
                   !.last = [op |-> "returned", probe |-> probe, ok |-> ok]]
  /\ UNCHANGED <<policyVars, jobVars, engineVars, storeVars, workerVars, swarmVars>>

InitBreaker == PolicyIdle /\ JobsIdle /\ EngineIdle /\ ToolsIdle /\ StoreIdle /\ WorkerIdle /\ SwarmIdle

NextBreaker == CbEnter \/ CbReturn \/ Tick

SpecBreaker == InitBreaker /\ [][NextBreaker]_vars

\* a step in which a call enters cb_ainvoke, and one in which a call comes back
Entering == tw'.calls = tw.calls + 1

Returning == Flying' = Flying - 1

\* the breaker opens only on a failed return that completes a run of 5 failures
OpensOnlyAfterThreshold ==
  [][(~tw.is_open /\ tw'.is_open) =>
       /\ tw'.last.op = "returned" /\ ~tw'.last.ok
       /\ tw'.streak >= CIRCUIT_BREAKER_THRESHOLD]_vars

\* a success resets the failure counter
SuccessResetsCounter ==
  [][(Returning /\ tw'.last.ok) => tw'.failures = 0]_vars

\* while open and within 60 s of the last failure a call fails without the tool
\* being invoked, and no other call is turned away
OpenRejectsWithoutInvoking ==
  [][Entering =>
       IF tw.is_open /\ tw.now - tw.failed_at < CIRCUIT_BREAKER_RECOVERY_TIME
       THEN tw'.last.op = "rejected" /\ Flying' = Flying
       ELSE tw'.last.op = "admitted" /\ Flying' = Flying + 1]_vars

\* once the 60 s are over one probe is let through, and no second one while the
\* first is in flight
OneProbeAtATime == [](tw.flying.probe <= 1)

\* a successful probe closes the breaker and resets the counter
ProbeSuccessCloses ==
  [][(Returning /\ tw'.last.probe /\ tw'.last.ok) =>
       ~tw'.is_open /\ tw'.failures = 0]_vars

\* a failed probe keeps the breaker open and restarts the cooldown
ProbeFailureReopens ==
  [][(Returning /\ tw'.last.probe /\ ~tw'.last.ok) =>
       /\ tw'.is_open
       /\ tw'.last_failure = Some(tw.now)
       /\ check_circuit_breaker(tw', tw'.now)]_vars

\* C28: the breaker of a tool follows closed -> open -> half-open: it opens only
\* after 5 consecutive failures (a success resets the failure counter), while open
\* and within 60 s of the last failure every call fails without invoking the tool,
\* after 60 s exactly one probe is let through, a successful probe closes the
\* breaker and resets the counter, a failed probe keeps it open and restarts the
\* cooldown; also with several calls of the same tool in flight.
C28_BreakerFollowsStateMachine ==
  /\ OpensOnlyAfterThreshold
  /\ SuccessResetsCounter
  /\ OpenRejectsWithoutInvoking
  /\ OneProbeAtATime
  /\ ProbeSuccessCloses
  /\ ProbeFailureReopens

\* what holds whatever the interleaving of the calls
BreakerOpensAndRejects ==
  /\ OpensOnlyAfterThreshold
  /\ SuccessResetsCounter
  /\ OpenRejectsWithoutInvoking
  /\ ProbeSuccessCloses

\* ---------------------------------------------------------------------------
\* The retry wrapper alone: wrap_tool_with_retry and the ToolError helpers
\* ---------------------------------------------------------------------------

\* the names of the wrapped tools and the messages of the exceptions they raise
ToolNames == {"get_metric", "search_logs"}

ErrorMessages == {"timeout", "connection refused"}

\* what one attempt of original_ainvoke does: it returns, or raises with a message
Outcomes == {"ok"} \cup ErrorMessages

\* the most calls of safe_ainvoke
MaxRetryCalls == 2

\* the attempts one call could make if nothing stopped it
AttemptRange == 1..(MaxAttempts + 1)

\* a stop that allows one attempt more
stop_after_attempt_mutant(attempt_number) == attempt_number >= MaxAttempts + 1

\* stop=stop_after_attempt(max_attempts)
stop_after_attempt(attempt_number) == attempt_number >= MaxAttempts

\* the retry_decorator around original_ainvoke, from attempt n on: the first
\* attempt that returns ends the loop; after a failed attempt the loop stops
\* when stop_after_attempt says so and, with reraise=True, raises the exception
\* of that last attempt itself (not a RetryError); otherwise it sleeps and retries
RECURSIVE ainvoke_with_retry(_, _)
ainvoke_with_retry(outcomes, n) ==
  IF outcomes[n] = "ok"
  THEN [raised |-> FALSE, exc |-> NoneRec, invocations |-> n]
  ELSE IF stop_after_attempt(n)
  THEN [raised |-> TRUE, exc |-> [type |-> "Exception", message |-> outcomes[n]],
        invocations |-> n]
  ELSE ainvoke_with_retry(outcomes, n + 1)

\* class ToolError
ToolError(tool_name, error_message, retry_count, is_recoverable) ==
  [type |-> "ToolError", tool_name |-> tool_name, error_message |-> error_message,
   retry_count |-> retry_count, is_recoverable |-> is_recoverable]

\* ToolError.to_agent_response: a str, here the pieces the f-string joins
to_agent_response(error) ==
  [type |-> "str",
   chars |-> <<"Error: Tool ", error.tool_name, " failed after ", error.retry_count,
               " attempts. Proceeding without this data. (Error: ",
               error.error_message, ")">>]

\* the str an underlying tool returns
ResultOf(tool_name) == [type |-> "str", chars |-> <<"result of ", tool_name>>]

JSONDecodeError == [type |-> "JSONDecodeError"]

\* json.loads: a str is a JSON object only when it starts with a brace (the second
\* piece is then the object); a str that starts with a letter does not parse
json_loads(result) ==
  IF Len(result.chars) = 2 /\ result.chars[1] = "{"
  THEN result.chars[2]
  ELSE JSONDecodeError

is_tool_error(result) ==
  IF result.type = "ToolError" THEN TRUE
  ELSE IF result.type = "str"
  THEN LET data == json_loads(result) IN
         /\ data # JSONDecodeError
         /\ data.type = "dict"
         /\ "tool_name" \in data.keys
         /\ "error_message" \in data.keys
  ELSE FALSE

\* _reflector_node: "TOOL UNAVAILABLE" in str(findings)
tool_unavailable(findings) ==
  \E k \in DOMAIN findings.chars : findings.chars[k] = "TOOL UNAVAILABLE"

\* safe_ainvoke (safe_invoke is the same code without await): the result of the
\* attempt that succeeded, or the agent response of the ToolError built in the
\* except branch that catches what the retry loop raised
safe_ainvoke(tool_name, outcomes) ==
  LET r == ainvoke_with_retry(outcomes, 1)
      error == IF r.raised /\ r.exc.type = "RetryError"
               THEN ToolError(tool_name, r.exc.message, MaxAttempts, FALSE)
               ELSE IF r.raised
               THEN ToolError(tool_name, r.exc.message, 1, TRUE)
               ELSE NoneRec
  IN [tool_name |-> tool_name, outcomes |-> outcomes, invocations |-> r.invocations,
      error |-> error,
      value |-> IF r.raised THEN to_agent_response(error) ELSE ResultOf(tool_name)]

\* a caller invokes the retry-wrapped tool; the tool's attempts do what `outcomes`
\* says
RetryCall ==
  /\ tw.calls < MaxRetryCalls
  /\ \E tool_name \in ToolNames, outcomes \in [AttemptRange -> Outcomes] :
       tw' = [tw EXCEPT !.calls = @ + 1, !.last = safe_ainvoke(tool_name, outcomes)]
  /\ UNCHANGED <<policyVars, jobVars, engineVars, storeVars, workerVars, swarmVars>>

InitRetry == PolicyIdle /\ JobsIdle /\ EngineIdle /\ ToolsIdle /\ StoreIdle /\ WorkerIdle /\ SwarmIdle

NextRetry == RetryCall

SpecRetry == InitRetry /\ [][NextRetry]_vars

\* the attempts, among the first MaxAttempts, on which the tool returns
GoodAttempts == {n \in 1..MaxAttempts : tw.last.outcomes[n] = "ok"}

\* every attempt the wrapper may make fails
Exhausted == tw.last # NoneRec /\ GoodAttempts = {}

\* C29: one call through the retry wrapper invokes the underlying tool at most 3
\* times: it stops at the first attempt that succeeds and returns that result, and
\* it makes exactly 3 attempts when every attempt fails.
C29_AtMostThreeAttempts ==
  tw.last # NoneRec =>
    /\ tw.last.invocations <= 3
    /\ IF GoodAttempts # {}
       THEN /\ \A n \in GoodAttempts : tw.last.invocations <= n
            /\ tw.last.invocations \in GoodAttempts
            /\ tw.last.value = ResultOf(tw.last.tool_name)
       ELSE tw.last.invocations = 3

\* the second call of the wrapper fails on its three attempts and stops there,
\* although a fourth attempt would have succeeded
C29_Witness ==
  /\ Exhausted
  /\ tw.last.outcomes[MaxAttempts + 1] = "ok"
  /\ tw.last.invocations = MaxAttempts
  /\ tw.calls = 2

\* C30: when all retry attempts fail, the value returned is a structured tool
\* error naming the tool and the final error message, with retry count 3 (the
\* attempts made) and is_recoverable false, recognised by is_tool_error and by the
\* Reflector's tool-unavailability detection.
C30_ExhaustionReturnsToolError ==
  Exhausted =>
    /\ tw.last.error # NoneRec
    /\ tw.last.error.tool_name = tw.last.tool_name
    /\ tw.last.error.error_message = tw.last.outcomes[MaxAttempts]
    /\ tw.last.error.retry_count = tw.last.invocations
    /\ tw.last.error.retry_count = 3
    /\ ~tw.last.error.is_recoverable
    /\ is_tool_error(tw.last.value)
    /\ tool_unavailable(tw.last.value)

\* what the wrapper does hand back on exhaustion: a text that names the tool and
\* the message of the last attempt
ExhaustionReturnsTextOfLastError ==
  Exhausted =>
    /\ tw.last.error # NoneRec
    /\ tw.last.error.tool_name = tw.last.tool_name
    /\ tw.last.error.error_message = tw.last.outcomes[MaxAttempts]
    /\ tw.last.value = to_agent_response(tw.last.error)

\* the ToolError built on exhaustion counts one attempt and is recoverable
ExhaustionCountsOneAttempt ==
  Exhausted => tw.last.error.retry_count = 1 /\ tw.last.error.is_recoverable

\* ---------------------------------------------------------------------------
\* One run at its investigation_swarm node, agent task by agent task
\* ---------------------------------------------------------------------------

\* the agents without which the node returns early; the fourth is optional
RequiredAgents == {1, 2, 3}

\* the tasks handed to asyncio.gather in the visit under way
Launched == {a \in DOMAIN sw.tasks : sw.tasks[a] # "none"}

\* a gather that lets the first exception through while tasks are still running
gather_done_mutant(tasks) ==
  \/ \E a \in DOMAIN tasks : tasks[a] = "raised"
  \/ \A a \in DOMAIN tasks : tasks[a] # "running"

\* asyncio.gather(*tasks, return_exceptions=True): the await ends when every task
\* has ended, whatever the way it ended
gather_done(tasks) == \A a \in DOMAIN tasks : tasks[a] # "running"

\* the value run_agent hands to gather for a task that has ended: the agent's
\* result, or, from `except Exception`, the error string in the agent's slot
run_agent_result(task) ==
  CASE task = "returned" -> "findings"
    [] task = "raised" -> "Error"
    [] OTHER -> "NONE"

\* the merge loop after the await: agent_results.update(result["agent_results"])
\* for each value gather returned; a task that has not ended has handed in nothing
merge_results(agent_results, tasks) ==
  [a \in DOMAIN agent_results |->
     IF tasks[a] \in {"returned", "raised"} THEN run_agent_result(tasks[a])
     ELSE agent_results[a]]

\* the node starts: the task list is built, with github_agent when there is one,
\* and handed to gather
SwarmStart ==
  /\ sw.pc \in {"prepare", "investigation_swarm"}
  /\ \E github \in BOOLEAN :
       sw' = [sw EXCEPT !.pc = "gather",
                        !.visits = @ + 1,
                        !.tasks = [a \in DOMAIN sw.tasks |->
                                     IF a \in RequiredAgents \/ github THEN "running"
                                     ELSE "none"]]
  /\ UNCHANGED <<policyVars, jobVars, engineVars, toolVars, storeVars, workerVars>>

\* `await agent_instance(agent_state)` of one task returns
AgentReturns ==
  /\ sw.pc = "gather"
  /\ \E a \in DOMAIN sw.tasks :
       /\ sw.tasks[a] = "running"
       /\ sw' = [sw EXCEPT !.tasks[a] = "returned"]
  /\ UNCHANGED <<policyVars, jobVars, engineVars, toolVars, storeVars, workerVars>>

\* `await agent_instance(agent_state)` of one task raises an Exception
AgentRaises ==
  /\ sw.pc = "gather"
  /\ \E a \in DOMAIN sw.tasks :
       /\ sw.tasks[a] = "running"
       /\ sw' = [sw EXCEPT !.tasks[a] = "raised"]
  /\ UNCHANGED <<policyVars, jobVars, engineVars, toolVars, storeVars, workerVars>>

\* the await of gather ends: the results are merged, the node returns with
\* investigation_count + 1 and next = "reflector"
SwarmJoin ==
  /\ sw.pc = "gather"
  /\ gather_done(sw.tasks)
  /\ sw' = [sw EXCEPT !.pc = "reflector",
                      !.agent_results = merge_results(@, sw.tasks),
                      !.investigation_count = @ + 1]
  /\ UNCHANGED <<policyVars, jobVars, engineVars, toolVars, storeVars, workerVars>>

\* the reflector asks for a deeper investigation (back to the swarm, while the
\* count is below the cap) or goes on to the planner
ReflectorAfterSwarm ==
  /\ sw.pc = "reflector"
  /\ \E deeper \in BOOLEAN :
       sw' = [sw EXCEPT !.pc = IF deeper /\ sw.investigation_count < MaxInvestigations
                               THEN "investigation_swarm" ELSE "planner"]
  /\ UNCHANGED <<policyVars, jobVars, engineVars, toolVars, storeVars, workerVars>>

InitSwarm ==
  PolicyIdle /\ JobsIdle /\ EngineIdle /\ ToolsIdle /\ StoreIdle /\ WorkerIdle /\ SwarmIdle

NextSwarm ==
  SwarmStart \/ AgentReturns \/ AgentRaises \/ SwarmJoin \/ ReflectorAfterSwarm

SpecSwarm == InitSwarm /\ [][NextSwarm]_vars

\* C33: an exception raised by one domain agent does not keep the other agents
\* from running to completion: after the join agent_results holds the error string
\* for the failed agent and the findings of every other launched agent, the
\* reflector starts only after all launched agents have finished, and
\* investigation_count is incremented exactly once for the visit.
C33_SwarmIsolatesFailures ==
  /\ sw.pc \in {"reflector", "investigation_swarm", "planner"} =>
       \A a \in Launched :
         /\ sw.tasks[a] \in {"returned", "raised"}
         /\ sw.agent_results[a] = IF sw.tasks[a] = "raised" THEN "Error" ELSE "findings"
  /\ sw.investigation_count =
       IF sw.pc = "gather" THEN sw.visits - 1 ELSE sw.visits

\* the reflector is about to start after the second visit, in which the logs
\* agent raised and the three other agents, github included, returned findings
C33_Witness ==
  /\ sw.pc = "reflector"
  /\ sw.tasks = <<"returned", "returned", "raised", "returned">>
  /\ sw.agent_results = <<"findings", "findings", "Error", "findings">>
  /\ sw.investigation_count = 2

\* ---------------------------------------------------------------------------
\* polling_loop of the edge worker, iteration by iteration
\* ---------------------------------------------------------------------------

\* POLL_INTERVAL_SECONDS, from the environment with default "5"
POLL_INTERVAL_SECONDS == 5

\* the most iterations of the loop
MaxPolls == 6

\* what the GET of get_pending_job does: 200 with a job, 200 with null, another
\* status (401 included), an httpx.RequestError (connection refused, timeout), or
\* a 200 whose body is not JSON (response.json() raises a ValueError)
PollOutcomes == {"job", "null", "other_status", "transport_error", "invalid_body"}

RECURSIVE Pow2(_)
Pow2(n) == IF n = 0 THEN 1 ELSE 2 * Pow2(n - 1)

\* JobPollerClient.get_pending_job: the job, None, or the exception it lets through
get_pending_job(outcome) ==
  CASE outcome = "job" -> [raised |-> FALSE, job |-> TRUE]
    [] outcome = "invalid_body" -> [raised |-> TRUE, job |-> FALSE]
    [] OTHER -> [raised |-> FALSE, job |-> FALSE]

\* one iteration of `while _is_running`: the poll, execute_job when there is a job,
\* then the sleep; `except Exception` counts the error and sleeps
\* min(POLL_INTERVAL_SECONDS * 2 ** consecutive_errors, 60)
PollIteration ==
  /\ wk.polls < MaxPolls
  /\ \E outcome \in PollOutcomes :
       LET got == get_pending_job(outcome)
           errors == IF got.raised THEN wk.consecutive_errors + 1 ELSE 0
       IN wk' = [wk EXCEPT
                   !.polls = @ + 1,
                   !.consecutive_errors = errors,
                   !.wait = IF got.raised
                            THEN Min(POLL_INTERVAL_SECONDS * Pow2(errors), 60)
                            ELSE POLL_INTERVAL_SECONDS,
                   !.polled = [outcome |-> outcome, errors_before |-> wk.consecutive_errors]]
  /\ UNCHANGED <<jobVars, policyVars, engineVars, toolVars, storeVars, swarmVars>>

InitPoller ==
  PolicyIdle /\ JobsIdle /\ EngineIdle /\ ToolsIdle /\ StoreIdle /\ WorkerIdle /\ SwarmIdle

NextPoller == PollIteration

SpecPoller == InitPoller /\ [][NextPoller]_vars

\* the wait after an iteration that failed grows from one failure to the next and
\* stays within 60 s
BackoffAfter(outcome) ==
  wk.polled.outcome = outcome =>
    /\ wk.consecutive_errors = wk.polled.errors_before + 1
    /\ wk.wait > POLL_INTERVAL_SECONDS
    /\ wk.wait <= 60
    /\ wk.wait = 60 \/ wk.wait = 2 * POLL_INTERVAL_SECONDS * Pow2(wk.polled.errors_before)

\* C35: every transport error while polling increments the consecutive-error
\* counter and delays the next iteration by an exponentially growing wait that
\* never exceeds 60 s; a poll that returns a job or returns none resets the
\* counter to 0.
C35_TransportErrorBacksOff ==
  wk.polled # NoneRec =>
    /\ BackoffAfter("transport_error")
    /\ wk.polled.outcome \in {"job", "null"} => wk.consecutive_errors = 0
    /\ wk.wait <= 60

\* what the loop does: the backoff is applied to an exception that
\* get_pending_job lets through, and a poll that returns resets the counter
ExceptionInLoopBacksOff ==
  wk.polled # NoneRec =>
    /\ BackoffAfter("invalid_body")
    /\ wk.polled.outcome \in {"job", "null"} => wk.consecutive_errors = 0
    /\ wk.wait <= 60

\* a transport error is taken for an empty queue: the counter is reset and the
\* loop sleeps the plain interval
TransportErrorCountsAsNoJob ==
  (wk.polled # NoneRec /\ wk.polled.outcome = "transport_error") =>
    wk.consecutive_errors = 0 /\ wk.wait = POLL_INTERVAL_SECONDS

\* ---------------------------------------------------------------------------
\* update_job_status and append_job_logs on one job, with requests in flight
\* ---------------------------------------------------------------------------

\* the most requests that have loaded the row and not yet committed
MaxWriters == 2

\* the most requests made
MaxLogRequests == 3

\* the texts of the requests accepted so far, in the order of their commits
Served == IF resp.code = 0 THEN <<>> ELSE resp.served

\* the dashboard triggers the job the worker reports on
TriggerLoggedJob == TriggerJob(JobClusters, 1)

\* a request of the job's worker passes the token and ownership checks and loads
\* the row (get_job_by_id); its log text is the number of the request
LoadRow ==
  /\ Cardinality(inflight) < MaxWriters
  /\ Len(Served) + Cardinality(inflight) < MaxLogRequests
  /\ \E job_id \in DOMAIN jobs, op \in {"status", "logs"} :
       LET authorization == [bearer |-> TRUE, token |-> TokenOf(jobs[job_id].cluster_id)]
           text == <<Len(Served) + Cardinality(inflight) + 1>>
       IN /\ AdmissionCode(authorization, job_id) = 200
          /\ \E status \in (IF op = "logs" THEN {jobs[job_id].status}
                            ELSE {"running", "completed"}) :
               inflight' = inflight \cup
                 {[op |-> op, authorization |-> authorization, job_id |-> job_id,
                   loaded |-> jobs[job_id], status |-> status, result |-> Absent,
                   logs |-> text]}
  /\ UNCHANGED <<jobs, clock, resp, policyVars, engineVars, toolVars, storeVars,
                 workerVars, swarmVars>>

\* crud.update_job_status of a request assigns the attributes and commits
CommitRow ==
  /\ \E r \in inflight :
       /\ jobs' = [jobs EXCEPT ![r.job_id] =
                     Flush(@, r.loaded,
                           update_job_status(r.loaded, r.status, r.result, r.logs,
                                             clock + 1))]
       /\ inflight' = inflight \ {r}
       /\ resp' = [code |-> 200, served |-> Served \o r.logs]
  /\ clock' = clock + 1
  /\ UNCHANGED <<policyVars, engineVars, toolVars, storeVars, workerVars, swarmVars>>

InitAppend ==
  PolicyIdle /\ JobsIdle /\ EngineIdle /\ ToolsIdle /\ StoreIdle /\ WorkerIdle /\ SwarmIdle

NextAppend == TriggerLoggedJob \/ LoadRow \/ CommitRow

SpecAppend == InitAppend /\ [][NextAppend]_vars

\* the log blob of a job only grows at its end
LogsGrowAtTheEnd ==
  [][\A j \in DOMAIN jobs : IsPrefix(jobs[j].logs, jobs'[j].logs)]_vars

\* the text of every accepted request is in the blob
AcceptedTextIsKept ==
  [](\A k \in DOMAIN Served : \E j \in DOMAIN jobs :
        \E n \in DOMAIN jobs[j].logs : jobs[j].logs[n] = Served[k])

\* C36: under any interleaving of update_job_status and append_job_logs requests
\* on the same job, the log blob before a request is a prefix of the blob after it
\* and the text of every accepted request appears in the final blob.
C36_ConcurrentAppendsKeepLogs == LogsGrowAtTheEnd /\ AcceptedTextIsKept

\* a request that commits on the row as it loaded it appends its text
CommitOnFreshRowAppends ==
  [][\A r \in inflight \ inflight' :
       r.loaded.logs = jobs[r.job_id].logs =>
         jobs'[r.job_id].logs = jobs[r.job_id].logs \o r.logs]_vars

====
